---- MODULE Spec2Model ----
(***************************************************************************)
(* Flavor: lexer (src/src/lexer.rs), recursive-descent parser              *)
(* (src/src/parser.rs), type checker (src/src/typechecker.rs) and          *)
(* tree-walking interpreter (src/src/interpreter.rs), run in that order by *)
(* main (src/src/main.rs).  A source is a sequence of characters; a token  *)
(* holds its name, its lexeme and its span.  AST nodes are records tagged  *)
(* by `kind`; the parser returns each node with its span beside it (the    *)
(* type checker and the interpreter read no span); types are records       *)
(* tagged by `t`; runtime values are records tagged by `tag`.              *)
(* Rc<RefCell<HashMap>> cells of function values live in `heap`, a         *)
(* sequence of maps; a function value holds the index of its cell.         *)
(***************************************************************************)
EXTENDS Integers, Sequences, FiniteSets

VARIABLES source, lexer, parser, node_spans, program, entry, stage, started, failure, reported, exit_status,
          pc, checker, tc_error, env, heap, last, outcome, rt_error, printed, calls,
          merging, first

vars == <<source, lexer, parser, node_spans, program, entry, stage, started, failure, reported, exit_status,
          pc, checker, tc_error, env, heap, last, outcome, rt_error, printed, calls,
          merging, first>>

(* ------------------------------ bounds -------------------------------- *)

\* Loop iterations plus calls one top-level statement may take in the model.
MaxFuel == 40
\* Largest argument of the recursive factorial programs.
MaxFact == 5
\* Calls made through the two aliases of the ticker closure.
MaxCalls == 3
\* Statements in the generated function bodies of the return-path programs.
MaxStmts == 2
\* Indices tried against arrays run from -1 to (array length - 1) + MaxOver.
MaxOver == 1
\* Lines and columns of the spans handed to Span::merge on its own.
MaxLine == 2
MaxColumn == 2
\* Largest limit of the counting loops, and largest iteration at which they leave.
MaxLimit == 3
\* the longest list of tokens, the Eof token aside, given to the parser on its own
MaxTokens == 3

(* ------------------------------ maps ---------------------------------- *)

EmptyMap == << >>

MapInsert(m, k, v) == [x \in (DOMAIN m) \cup {k} |-> IF x = k THEN v ELSE m[x]]

Has(m, k) == k \in DOMAIN m

(* ------------------------------ types --------------------------------- *)

TyNone == [t |-> "None"]
TInt == [t |-> "Int"]
TBool == [t |-> "Bool"]
TFloat == [t |-> "Float"]
TString == [t |-> "String"]
TUnit == [t |-> "Unit"]
TCustom(n) == [t |-> "Custom", name |-> n]
TArray(e) == [t |-> "Array", elem |-> e]
TFunction(ps, r) == [t |-> "Function", param_types |-> ps, return_type |-> r]

(* ------------------------------ AST ----------------------------------- *)

NoNode == [kind |-> "None"]
PrintNode(es) == [kind |-> "Print", expressions |-> es]
Body(ns) == [kind |-> "Body", nodes |-> ns]
If(g, th, el) == [kind |-> "If", guard |-> g, then_body |-> th, else_body |-> el]
While(g, b) == [kind |-> "While", guard |-> g, body |-> b]
Let(id, ty, e) == [kind |-> "LetDeclaration", identifier |-> id, var_type |-> ty, expr |-> e]
FnDecl(n, ps, r, b) == [kind |-> "FunctionDeclaration", name |-> n, parameters |-> ps, return_type |-> r, body |-> b]
FnExpr(ps, r, b) == [kind |-> "FunctionExpression", parameters |-> ps, return_type |-> r, body |-> b]
Return(e) == [kind |-> "Return", expr |-> e]
Break == [kind |-> "Break"]
Call(c, as) == [kind |-> "FunctionCall", callee |-> c, arguments |-> as]
UnitLit == [kind |-> "UnitLiteral"]
\* value: the literal's lexeme, a sequence of decimal digits
NumLit(ds) == [kind |-> "NumberLiteral", digits |-> ds]
\* value: the literal's text
StrLit(s) == [kind |-> "StringLiteral", text |-> s]
\* value: the lexeme, "true" or "false"
BoolLit(s) == [kind |-> "BoolLiteral", lexeme |-> s]
Id(n) == [kind |-> "Identifier", name |-> n]
ArrLit(es) == [kind |-> "ArrayLiteral", elements |-> es]
Access(a, i) == [kind |-> "ArrayAccess", array |-> a, index |-> i]
Bin(l, o, r) == [kind |-> "BinaryExpression", left |-> l, operator |-> o, right |-> r]
Un(o, e, post) == [kind |-> "UnaryExpression", operator |-> o, operand |-> e, is_postfix |-> post]
ExprStmt(e) == [kind |-> "ExpressionStatement", expr |-> e]

\* a parameter (name, Type) of a function declaration or expression
Param(n, ty) == [pname |-> n, ptype |-> ty]

ParamTypes(ps) == [i \in 1..Len(ps) |-> ps[i].ptype]
ParamNames(ps) == [i \in 1..Len(ps) |-> ps[i].pname]

(* --------------------------- type checker ----------------------------- *)

\* TypeChecker::new: one empty scope, no expected return, no expected type
NewTypeChecker == [scopes |-> <<EmptyMap>>, expected_return |-> TyNone, expected_type |-> TyNone]

\* Ok((Type, bool)) and Err(FlavorError) of TypeChecker::check, with the checker's state
TOk(ty, returns, t) == [ok |-> TRUE, ty |-> ty, ret |-> returns, msg |-> "", t |-> t]
TErr(m, t) == [ok |-> FALSE, ty |-> TyNone, ret |-> FALSE, msg |-> m, t |-> t]

Insert(t, name, ty) ==
  IF Len(t.scopes) = 0 THEN t
  ELSE [t EXCEPT !.scopes[Len(t.scopes)] = MapInsert(@, name, ty)]

RECURSIVE GetFrom(_, _, _)
GetFrom(sc, i, name) ==
  IF i = 0 THEN TyNone
  ELSE IF Has(sc[i], name) THEN sc[i][name]
  ELSE GetFrom(sc, i - 1, name)

Get(t, name) == GetFrom(t.scopes, Len(t.scopes), name)

EnterScope(t) == [t EXCEPT !.scopes = Append(@, EmptyMap)]

\* An exit that leaves the function's scope on the stack.
ExitScopeKeepingIt(t) == t

ExitScope(t) == [t EXCEPT !.scopes = SubSeq(@, 1, Len(@) - 1)]

RECURSIVE InsertParams(_, _, _)
InsertParams(t, ps, i) ==
  IF i > Len(ps) THEN t
  ELSE InsertParams(Insert(t, ps[i].pname, ps[i].ptype), ps, i + 1)

\* A laxer rule than the checker's: a missing else branch counts as returning.
IfReturnsWithoutElse(has_else, then_returns, else_returns) ==
  then_returns /\ (has_else => else_returns)

\* An If guarantees a return only with an else branch and both branches returning.
IfGuaranteesReturn(has_else, then_returns, else_returns) ==
  has_else /\ then_returns /\ else_returns

\* A While never guarantees a return, whatever its body does.
WhileGuaranteesReturn(body_returns) == FALSE

\* The element type an array literal is validated against under Array(expected).
ArrayLiteralMatches(expected, final_elem_type) == expected = final_elem_type

\* `declared` (a let's annotation) against a function expression's own signature
LetFunctionMatches(declared, parameters, return_type) ==
  /\ declared.t = "Function"
  /\ Len(declared.param_types) = Len(parameters)
  /\ declared.param_types = ParamTypes(parameters)
  /\ declared.return_type = return_type

UnaryType(operator, operand_ty) ==
  CASE operator = "!" -> IF operand_ty = TBool THEN TBool ELSE TyNone
    [] operator \in {"-", "+", "--", "++"} -> IF operand_ty = TInt THEN TInt ELSE TyNone
    [] OTHER -> TyNone

UnaryError(operator) ==
  CASE operator = "!" -> "Unary operator '{operator}' requires Boolean operand but found {operand_ty:?}"
    [] operator \in {"-", "+", "--", "++"} -> "Unary operator '{operator}' requires Integer operand but found {operand_ty:?}"
    [] OTHER -> "Unknown unary operator '{operator}'"

BinaryType(operator, left_ty, right_ty) ==
  CASE operator = "=" -> IF left_ty = right_ty THEN left_ty ELSE TyNone
    [] operator \in {">", "<", ">=", "<="} -> IF left_ty = TInt /\ right_ty = TInt THEN TBool ELSE TyNone
    [] operator \in {"+", "-", "*", "/", "%"} -> IF left_ty = TInt /\ right_ty = TInt THEN TInt ELSE TyNone
    [] operator \in {"&&", "||"} -> IF left_ty = TBool /\ right_ty = TBool THEN TBool ELSE TyNone
    [] operator \in {"==", "!="} -> IF left_ty = right_ty THEN TBool ELSE TyNone
    [] OTHER -> TyNone

BinaryError(operator) ==
  CASE operator = "=" -> "Assignment type mismatch: left is {left_ty:?}, right is {right_ty:?}"
    [] operator \in {">", "<", ">=", "<=", "+", "-", "*", "/", "%"} -> "Operator '{operator}' requires Integer operands but found left: {left_ty:?}, right: {right_ty:?}"
    [] operator \in {"&&", "||"} -> "Operator '{operator}' requires Boolean operands but found left: {left_ty:?}, right: {right_ty:?}"
    [] operator \in {"==", "!="} -> "Operator '{operator}' requires operands of the same type but found left: {left_ty:?}, right: {right_ty:?}"
    [] OTHER -> "Unknown binary operator '{operator}'"

RECURSIVE Check(_, _)
RECURSIVE CheckPrint(_, _, _)
RECURSIVE CheckArrayElems(_, _, _, _)
RECURSIVE CheckBodyNodes(_, _, _, _)
RECURSIVE CheckArgs(_, _, _, _)

\* with_expected_type: the previous expected type is put back on Ok and on Err
WithExpectedType(t, expected, node) ==
  LET r == Check(node, [t EXCEPT !.expected_type = expected])
  IN [r EXCEPT !.t.expected_type = t.expected_type]

\* Print: every expression is checked, the first error ends the loop
CheckPrint(es, i, t) ==
  IF i > Len(es) THEN TOk(TUnit, FALSE, t)
  ELSE LET r == Check(es[i], t)
       IN IF r.ok THEN CheckPrint(es, i + 1, r.t) ELSE r

\* ArrayLiteral's loop over the elements; element_type is TyNone before the first
CheckArrayElems(elements, i, element_type, t) ==
  IF i > Len(elements) THEN TOk(element_type, FALSE, t)
  ELSE LET r == Check(elements[i], t)
       IN IF ~r.ok THEN r
          ELSE IF element_type # TyNone /\ element_type # r.ty
               THEN TErr("Array elements must be of the same type, found {t:?} and {elem_ty:?}", r.t)
          ELSE CheckArrayElems(elements, i + 1, IF element_type = TyNone THEN r.ty ELSE element_type, r.t)

CheckArrayLiteral(n, t) ==
  IF Len(n.elements) = 0
  THEN IF t.expected_type.t = "Array" THEN TOk(t.expected_type, FALSE, t)
       ELSE TOk(TArray(TUnit), FALSE, t)
  ELSE LET r == CheckArrayElems(n.elements, 1, TyNone, t)
       IN IF ~r.ok THEN r
          ELSE IF r.t.expected_type.t = "Array"
               THEN IF ~ArrayLiteralMatches(r.t.expected_type.elem, r.ty)
                    THEN TErr("Array literal element type mismatch: expected {:?}, found {:?}", r.t)
                    ELSE TOk(r.t.expected_type, FALSE, r.t)
          ELSE TOk(TArray(r.ty), FALSE, r.t)

CheckArrayAccess(n, t) ==
  LET a == Check(n.array, t)
  IN IF ~a.ok THEN a
     ELSE LET i == Check(n.index, a.t)
          IN IF ~i.ok THEN i
             ELSE IF i.ty # TInt THEN TErr("Array index must be of type Int, found {index_ty:?}", i.t)
             ELSE IF a.ty.t = "Array" THEN TOk(a.ty.elem, FALSE, i.t)
             ELSE TErr("Attempted to index non-array type {other:?}", i.t)

\* The part the three function forms share: set the expected return, open a
\* scope, insert the parameters, check the body, close the scope, put the
\* expected return back.  An error in the body leaves through `?` at once.
CheckFunctionBody(parameters, body, expected_return, t) ==
  LET t1 == InsertParams(EnterScope([t EXCEPT !.expected_return = expected_return]), parameters, 1)
      r == Check(body, t1)
  IN IF ~r.ok THEN r
     ELSE [r EXCEPT !.t = [ExitScope(r.t) EXCEPT !.expected_return = t.expected_return]]

\* A function whose return type is not Unit needs a body that guarantees a return.
MissingReturn(expected_return, guaranteed_return) ==
  expected_return # TUnit /\ ~guaranteed_return

CheckLetFunction(n, t) ==
  LET f == n.expr
      inferred_ty == TFunction(ParamTypes(f.parameters), f.return_type)
  IN IF n.var_type # TyNone /\ ~LetFunctionMatches(n.var_type, f.parameters, f.return_type)
     THEN TErr("Type mismatch in let declaration: variable '{identifier}' declared as {declared_ty:?} but expression has type {inferred_ty:?}", t)
     ELSE LET stored_ty == IF n.var_type # TyNone THEN n.var_type ELSE inferred_ty
              expected_return == IF stored_ty.t = "Function" THEN stored_ty.return_type ELSE TUnit
              r == CheckFunctionBody(f.parameters, f.body, expected_return, Insert(t, n.identifier, stored_ty))
          IN IF ~r.ok THEN r
             ELSE IF MissingReturn(expected_return, r.ret)
                  THEN TErr("Function assigned to '{identifier}' does not guarantee a return on all paths", r.t)
             ELSE TOk(stored_ty, FALSE, r.t)

CheckLetDeclaration(n, t) ==
  IF n.expr.kind = "FunctionExpression" THEN CheckLetFunction(n, t)
  ELSE LET r == IF n.var_type # TyNone THEN WithExpectedType(t, n.var_type, n.expr) ELSE Check(n.expr, t)
       IN IF ~r.ok THEN r
          ELSE IF n.var_type # TyNone
               THEN IF n.var_type # r.ty
                    THEN TErr("Type mismatch in let declaration: variable '{identifier}' declared as {declared_ty:?} but expression has type {:?}", r.t)
                    ELSE TOk(n.var_type, FALSE, Insert(r.t, n.identifier, n.var_type))
          ELSE TOk(r.ty, FALSE, Insert(r.t, n.identifier, r.ty))

CheckFunctionDeclaration(n, t) ==
  LET func_ty == TFunction(ParamTypes(n.parameters), n.return_type)
      r == CheckFunctionBody(n.parameters, n.body, n.return_type, Insert(t, n.name, func_ty))
  IN IF ~r.ok THEN r
     ELSE IF MissingReturn(n.return_type, r.ret)
          THEN TErr("Function '{name}' does not guarantee a return on all paths", r.t)
     ELSE TOk(func_ty, FALSE, r.t)

CheckFunctionExpression(n, t) ==
  LET func_ty == TFunction(ParamTypes(n.parameters), n.return_type)
      expected == t.expected_type
  IN IF expected.t = "Function" /\ Len(expected.param_types) # Len(n.parameters)
     THEN TErr("Function expression parameter count mismatch: expected {}, found {}", t)
     ELSE IF expected.t = "Function" /\ expected.param_types # ParamTypes(n.parameters)
     THEN TErr("Function expression parameter type mismatch: expected {expected_ty:?}, found {actual_ty:?}", t)
     ELSE IF expected.t = "Function" /\ expected.return_type # n.return_type
     THEN TErr("Function expression return type mismatch: expected {expected_return:?}, found {return_type:?}", t)
     ELSE LET enforced_return == IF expected.t = "Function" THEN expected.return_type ELSE n.return_type
              r == CheckFunctionBody(n.parameters, n.body, enforced_return, t)
          IN IF ~r.ok THEN r
             ELSE IF MissingReturn(enforced_return, r.ret)
                  THEN TErr("Function expression does not guarantee a return on all paths", r.t)
             ELSE TOk(func_ty, FALSE, r.t)

\* A Body loop that goes on after a statement that guarantees a return.
CheckBodyNodesToTheEnd(nodes, i, last_type, t) ==
  IF i > Len(nodes) THEN TOk(last_type, FALSE, t)
  ELSE LET r == Check(nodes[i], t)
       IN IF ~r.ok THEN r
          ELSE LET rest == CheckBodyNodes(nodes, i + 1, r.ty, r.t)
               IN IF r.ret /\ rest.ok THEN TOk(r.ty, TRUE, rest.t) ELSE rest

\* Body: the first statement that guarantees a return ends the loop
CheckBodyNodes(nodes, i, last_type, t) ==
  IF i > Len(nodes) THEN TOk(last_type, FALSE, t)
  ELSE LET r == Check(nodes[i], t)
       IN IF ~r.ok THEN r
          ELSE IF r.ret THEN TOk(r.ty, TRUE, r.t)
          ELSE CheckBodyNodes(nodes, i + 1, r.ty, r.t)

CheckIf(n, t) ==
  LET g == Check(n.guard, t)
  IN IF ~g.ok THEN g
     ELSE IF g.ty # TBool THEN TErr("Guard in If statement should be of type Bool, but was {:?}", g.t)
     ELSE LET th == Check(n.then_body, g.t)
          IN IF ~th.ok THEN th
             ELSE IF n.else_body.kind # "None"
                  THEN LET el == Check(n.else_body, th.t)
                       IN IF ~el.ok THEN el
                          ELSE IF IfGuaranteesReturn(TRUE, th.ret, el.ret)
                               THEN TOk(IF el.t.expected_return # TyNone THEN el.t.expected_return ELSE TUnit, TRUE, el.t)
                          ELSE TOk(th.ty, FALSE, el.t)
             ELSE TOk(th.ty, IfGuaranteesReturn(FALSE, th.ret, FALSE), th.t)

CheckWhile(n, t) ==
  LET g == Check(n.guard, t)
  IN IF ~g.ok THEN g
     ELSE IF g.ty # TBool THEN TErr("Guard in While statement should be of type Bool, but was {:?}", g.t)
     ELSE LET b == Check(n.body, g.t)
          IN IF ~b.ok THEN b ELSE TOk(TUnit, WhileGuaranteesReturn(b.ret), b.t)

\* FunctionCall's loop over the arguments, each under its parameter's type
CheckArgs(arguments, param_types, i, t) ==
  IF i > Len(arguments) THEN TOk(TUnit, FALSE, t)
  ELSE LET r == WithExpectedType(t, param_types[i], arguments[i])
       IN IF ~r.ok THEN r
          ELSE IF param_types[i] # r.ty
               THEN TErr("Function argument type mismatch: expected {param_ty:?}, found {:?}", r.t)
          ELSE CheckArgs(arguments, param_types, i + 1, r.t)

\* A call rule that checks the arguments it can pair with a parameter before it
\* compares the counts.
CheckFunctionCallArgumentsFirst(n, t) ==
  LET c == Check(n.callee, t)
  IN IF ~c.ok THEN c
     ELSE IF c.ty.t # "Function" THEN TErr("Attempted to call non-function type {other:?}", c.t)
     ELSE LET paired == IF Len(n.arguments) < Len(c.ty.param_types) THEN Len(n.arguments) ELSE Len(c.ty.param_types)
              r == CheckArgs(SubSeq(n.arguments, 1, paired), c.ty.param_types, 1, c.t)
          IN IF ~r.ok THEN r
             ELSE IF Len(c.ty.param_types) # Len(n.arguments)
                  THEN TErr("Function argument count mismatch: expected {}, found {}", r.t)
             ELSE TOk(c.ty.return_type, FALSE, r.t)

CheckFunctionCall(n, t) ==
  LET c == Check(n.callee, t)
  IN IF ~c.ok THEN c
     ELSE IF c.ty.t # "Function" THEN TErr("Attempted to call non-function type {other:?}", c.t)
     ELSE IF Len(c.ty.param_types) # Len(n.arguments)
          THEN TErr("Function argument count mismatch: expected {}, found {}", c.t)
     ELSE LET r == CheckArgs(n.arguments, c.ty.param_types, 1, c.t)
          IN IF ~r.ok THEN r ELSE TOk(c.ty.return_type, FALSE, r.t)

CheckReturn(n, t) ==
  LET expected_return == t.expected_return
      r == IF expected_return # TyNone THEN WithExpectedType(t, expected_return, n.expr) ELSE Check(n.expr, t)
  IN IF ~r.ok THEN r
     ELSE IF expected_return # TyNone /\ r.ty # expected_return
          THEN TErr("Return type mismatch: expected {expected:?}, found {:?}", r.t)
     ELSE TOk(r.ty, TRUE, r.t)

CheckUnaryExpression(n, t) ==
  LET o == Check(n.operand, t)
  IN IF ~o.ok THEN o
     ELSE IF UnaryType(n.operator, o.ty) = TyNone THEN TErr(UnaryError(n.operator), o.t)
     ELSE TOk(UnaryType(n.operator, o.ty), FALSE, o.t)

CheckBinaryExpression(n, t) ==
  LET l == Check(n.left, t)
  IN IF ~l.ok THEN l
     ELSE LET r == IF n.operator = "=" THEN WithExpectedType(l.t, l.ty, n.right) ELSE Check(n.right, l.t)
          IN IF ~r.ok THEN r
             ELSE IF BinaryType(n.operator, l.ty, r.ty) = TyNone THEN TErr(BinaryError(n.operator), r.t)
             ELSE TOk(BinaryType(n.operator, l.ty, r.ty), FALSE, r.t)

\* TypeChecker::check
Check(n, t) ==
  CASE n.kind = "Print" -> CheckPrint(n.expressions, 1, t)
    [] n.kind = "ArrayLiteral" -> CheckArrayLiteral(n, t)
    [] n.kind = "ArrayAccess" -> CheckArrayAccess(n, t)
    [] n.kind = "LetDeclaration" -> CheckLetDeclaration(n, t)
    [] n.kind = "FunctionDeclaration" -> CheckFunctionDeclaration(n, t)
    [] n.kind = "FunctionExpression" -> CheckFunctionExpression(n, t)
    [] n.kind = "Body" -> CheckBodyNodes(n.nodes, 1, TUnit, t)
    [] n.kind = "If" -> CheckIf(n, t)
    [] n.kind = "While" -> CheckWhile(n, t)
    [] n.kind = "Break" -> TOk(TUnit, FALSE, t)
    [] n.kind = "FunctionCall" -> CheckFunctionCall(n, t)
    [] n.kind = "UnitLiteral" -> TOk(TUnit, FALSE, t)
    [] n.kind = "NumberLiteral" -> TOk(TInt, FALSE, t)
    [] n.kind = "StringLiteral" -> TOk(TString, FALSE, t)
    [] n.kind = "BoolLiteral" -> TOk(TBool, FALSE, t)
    [] n.kind = "Identifier" ->
         IF Get(t, n.name) # TyNone THEN TOk(Get(t, n.name), FALSE, t)
         ELSE TErr("Use of undeclared identifier '{name}'", t)
    [] n.kind = "Return" -> CheckReturn(n, t)
    [] n.kind = "ExpressionStatement" ->
         LET r == Check(n.expr, t) IN IF r.ok THEN TOk(TUnit, FALSE, r.t) ELSE r
    [] n.kind = "UnaryExpression" -> CheckUnaryExpression(n, t)
    [] n.kind = "BinaryExpression" -> CheckBinaryExpression(n, t)

(* ----------------------------- values --------------------------------- *)

VInt(n) == [tag |-> "Int", i |-> n]
VBool(x) == [tag |-> "Bool", b |-> x]
VString(x) == [tag |-> "String", s |-> x]
VUnit == [tag |-> "Unit"]
VArray(es) == [tag |-> "Array", elems |-> es]
\* Function { parameters, body, env }: `cell` is the index in `heap` of the shared env
VFunction(ps, b, c) == [tag |-> "Function", parameters |-> ps, body |-> b, cell |-> c]

RECURSIVE MatchesType(_, _)
MatchesType(v, expected) ==
  CASE expected.t = "Custom" -> TRUE
    [] v.tag = "Int" -> expected.t = "Int"
    [] v.tag = "Bool" -> expected.t = "Bool"
    [] v.tag = "String" -> expected.t = "String"
    [] v.tag = "Unit" -> expected.t = "Unit"
    [] v.tag = "Array" -> expected.t = "Array" /\ \A k \in 1..Len(v.elems) : MatchesType(v.elems[k], expected.elem)
    [] v.tag = "Function" -> expected.t = "Function"
    [] OTHER -> FALSE

\* str::parse::<i64> of a digit sequence (the model's literals stay far below 2^63)
RECURSIVE ParseI64(_, _, _)
ParseI64(ds, k, acc) == IF k > Len(ds) THEN acc ELSE ParseI64(ds, k + 1, acc * 10 + ds[k])

\* i64 `/` truncates toward zero and `%` takes the sign of the dividend
Abs(x) == IF x < 0 THEN -x ELSE x
RustDiv(l, r) == IF (l < 0) = (r < 0) THEN Abs(l) \div Abs(r) ELSE -(Abs(l) \div Abs(r))
RustRem(l, r) == l - r * RustDiv(l, r)

(* --------------------------- interpreter ------------------------------ *)

\* Ok(EvalOutcome) / Err(FlavorError) of Interpreter::eval with the interpreter's
\* state s = [env, heap, printed, calls, fuel].  k is "Value", "Break", "Return",
\* "Err", or "Diverge" when the model's fuel ran out.
Val(v, s) == [k |-> "Value", v |-> v, msg |-> "", s |-> s]
Brk(s) == [k |-> "Break", v |-> VUnit, msg |-> "", s |-> s]
Ret(v, s) == [k |-> "Return", v |-> v, msg |-> "", s |-> s]
\* Err(FlavorError): `shown` holds the values the message formats with {:?}
Err(m, s) == [k |-> "Err", v |-> VUnit, msg |-> m, s |-> s, shown |-> << >>]
ErrShowing(m, shown, s) == [k |-> "Err", v |-> VUnit, msg |-> m, s |-> s, shown |-> shown]
Diverge(s) == [k |-> "Diverge", v |-> VUnit, msg |-> "", s |-> s]

SetEnv(s, e) == [s EXCEPT !.env = e]

\* Rc::new(RefCell::new(self.env.clone())): a fresh cell holding a copy of the frame
NewCell(s) == [s EXCEPT !.heap = Append(@, s.env)]

\* A captured environment without the function's own name.
NoSelfBind(cell_env, name, func) == cell_env

\* closure_env.borrow_mut().insert(name, func): a declared function sees itself
SelfBind(cell_env, name, func) == MapInsert(cell_env, name, func)

\* env.borrow_mut().insert(name, value) on the cell of a function value
CellInsert(s, cell, name, v) == [s EXCEPT !.heap[cell] = SelfBind(@, name, v)]

\* A read that never misses: past the end it yields Unit.
GetElementOrUnit(arr, idx) ==
  [some |-> TRUE, v |-> IF idx < Len(arr) THEN arr[idx + 1] ELSE [tag |-> "Unit"]]

\* Vec::get: the element at idx (0-based), or none
GetElement(arr, idx) ==
  IF idx < Len(arr) THEN [some |-> TRUE, v |-> arr[idx + 1]] ELSE [some |-> FALSE, v |-> VUnit]

\* `idx >= len` of the two writing paths
OutOfBounds(idx, len) == idx >= len

\* A call that lets a Break of its body through to the caller.
CallResultWithBreak(body, s) ==
  CASE body.k \in {"Return", "Value"} -> [k |-> "Value", v |-> body.v, msg |-> "", s |-> s]
    [] OTHER -> [body EXCEPT !.s = s]

\* The value a call yields for the outcome of its body.
CallResult(body, s) ==
  CASE body.k = "Return" -> Val(body.v, s)
    [] body.k = "Value" -> Val(body.v, s)
    [] body.k = "Break" -> Err("Break outside of a loop", s)
    [] OTHER -> [body EXCEPT !.s = s]

\* A call that stays in the callee's frame.
KeepCalleeEnv(old_env, callee_env) == callee_env

\* self.env = old_env after the body
RestoreEnv(old_env, callee_env) == old_env

\* The frame a call runs its body in, before the arguments are bound.
LocalEnv(heap_, f) == heap_[f.cell]

\* ++/-- yielding the stored value in both forms.
IncResultStored(is_postfix, old_int, new_int) == [tag |-> "Int", i |-> new_int]

\* The value a ++/-- expression yields.
IncResult(is_postfix, old_int, new_int) == IF is_postfix THEN VInt(old_int) ELSE VInt(new_int)

\* The evaluated binary operators other than "="
BinaryOp(l, r, op) ==
  CASE l.tag = "Int" /\ r.tag = "Int" /\ op = "+" -> [ok |-> TRUE, v |-> VInt(l.i + r.i), msg |-> ""]
    [] l.tag = "Int" /\ r.tag = "Int" /\ op = "-" -> [ok |-> TRUE, v |-> VInt(l.i - r.i), msg |-> ""]
    [] l.tag = "Int" /\ r.tag = "Int" /\ op = "*" -> [ok |-> TRUE, v |-> VInt(l.i * r.i), msg |-> ""]
    [] l.tag = "Int" /\ r.tag = "Int" /\ op = "/" ->
         IF r.i = 0 THEN [ok |-> FALSE, v |-> VUnit, msg |-> "Division by zero"]
         ELSE [ok |-> TRUE, v |-> VInt(RustDiv(l.i, r.i)), msg |-> ""]
    [] l.tag = "Int" /\ r.tag = "Int" /\ op = "%" ->
         IF r.i = 0 THEN [ok |-> FALSE, v |-> VUnit, msg |-> "Modulo by zero"]
         ELSE [ok |-> TRUE, v |-> VInt(RustRem(l.i, r.i)), msg |-> ""]
    [] l.tag = "Int" /\ r.tag = "Int" /\ op = "==" -> [ok |-> TRUE, v |-> VBool(l.i = r.i), msg |-> ""]
    [] l.tag = "Int" /\ r.tag = "Int" /\ op = "!=" -> [ok |-> TRUE, v |-> VBool(l.i # r.i), msg |-> ""]
    [] l.tag = "Int" /\ r.tag = "Int" /\ op = "<" -> [ok |-> TRUE, v |-> VBool(l.i < r.i), msg |-> ""]
    [] l.tag = "Int" /\ r.tag = "Int" /\ op = "<=" -> [ok |-> TRUE, v |-> VBool(l.i <= r.i), msg |-> ""]
    [] l.tag = "Int" /\ r.tag = "Int" /\ op = ">" -> [ok |-> TRUE, v |-> VBool(l.i > r.i), msg |-> ""]
    [] l.tag = "Int" /\ r.tag = "Int" /\ op = ">=" -> [ok |-> TRUE, v |-> VBool(l.i >= r.i), msg |-> ""]
    [] l.tag = "Bool" /\ r.tag = "Bool" /\ op = "&&" -> [ok |-> TRUE, v |-> VBool(l.b /\ r.b), msg |-> ""]
    [] l.tag = "Bool" /\ r.tag = "Bool" /\ op = "||" -> [ok |-> TRUE, v |-> VBool(l.b \/ r.b), msg |-> ""]
    [] l.tag = "Bool" /\ r.tag = "Bool" /\ op = "==" -> [ok |-> TRUE, v |-> VBool(l.b = r.b), msg |-> ""]
    [] l.tag = "Bool" /\ r.tag = "Bool" /\ op = "!=" -> [ok |-> TRUE, v |-> VBool(l.b # r.b), msg |-> ""]
    [] OTHER -> [ok |-> FALSE, v |-> VUnit, msg |-> "Unsupported binary operation: {l:?} {op} {r:?}"]

\* collect_array_access_chain: the root identifier and the index nodes, outermost last
RECURSIVE CollectChain(_, _)
CollectChain(current, indices) ==
  CASE current.kind = "ArrayAccess" -> CollectChain(current.array, <<current.index>> \o indices)
    [] current.kind = "Identifier" -> [some |-> TRUE, name |-> current.name, indices |-> indices]
    [] OTHER -> [some |-> FALSE, name |-> "", indices |-> << >>]

\* mutate_array_element: add delta to the Int at `indices` inside `current`
RECURSIVE MutateArrayElement(_, _, _, _)
MutateArrayElement(current, indices, depth, delta) ==
  LET idx == indices[1]
      bad(m) == [ok |-> FALSE, msg |-> m, cur |-> current, old |-> 0, new |-> 0]
  IN IF current.tag # "Array"
     THEN bad(IF depth = 0 THEN "{array_name} is not an array" ELSE "Cannot index into non-array value")
     ELSE IF OutOfBounds(idx, Len(current.elems)) THEN bad("Index out of bounds")
     ELSE IF Len(indices) = 1
          THEN IF current.elems[idx + 1].tag = "Int"
               THEN LET original == current.elems[idx + 1].i
                    IN [ok |-> TRUE, msg |-> "", old |-> original, new |-> original + delta,
                        cur |-> VArray([current.elems EXCEPT ![idx + 1] = VInt(original + delta)])]
               ELSE bad("Unsupported unary operation: {operator} (postfix: {is_postfix}) on {other:?}")
     ELSE LET r == MutateArrayElement(current.elems[idx + 1], Tail(indices), depth + 1, delta)
          IN IF r.ok THEN [r EXCEPT !.cur = VArray([current.elems EXCEPT ![idx + 1] = r.cur])]
             ELSE [r EXCEPT !.cur = current]

RECURSIVE Eval(_, _)
RECURSIVE EvalPrint(_, _, _, _)
RECURSIVE EvalBodyNodes(_, _, _, _)
RECURSIVE EvalWhile(_, _, _)
RECURSIVE EvalArgs(_, _, _, _, _)
RECURSIVE EvalElements(_, _, _, _)
RECURSIVE EvalIndices(_, _, _, _)

\* Print: the values are collected left to right, then one line is written
EvalPrint(es, i, outputs, s) ==
  IF i > Len(es) THEN Val(VUnit, [s EXCEPT !.printed = Append(@, outputs)])
  ELSE LET r == Eval(es[i], s)
       IN IF r.k # "Value" THEN r ELSE EvalPrint(es, i + 1, Append(outputs, r.v), r.s)

\* Body: the statements in order; a Break, a Return or an error ends the loop
EvalBodyNodes(nodes, i, result, s) ==
  IF i > Len(nodes) THEN Val(result, s)
  ELSE LET r == Eval(nodes[i], s)
       IN IF r.k # "Value" THEN r ELSE EvalBodyNodes(nodes, i + 1, r.v, r.s)

EvalIf(n, s) ==
  LET g == Eval(n.guard, s)
  IN IF g.k # "Value" THEN g
     ELSE IF g.v = VBool(TRUE) THEN Eval(n.then_body, g.s)
     ELSE IF n.else_body.kind # "None" THEN Eval(n.else_body, g.s)
     ELSE Val(VUnit, g.s)

\* A While that hands the Break of its body to its caller.
EvalWhileLettingBreakThrough(n, result, s) ==
  IF s.fuel = 0 THEN Diverge(s)
  ELSE LET g == Eval(n.guard, [s EXCEPT !.fuel = @ - 1])
       IN IF g.k # "Value" THEN g
          ELSE IF g.v = VBool(TRUE)
               THEN LET b == Eval(n.body, g.s)
                    IN CASE b.k = "Value" -> EvalWhile(n, b.v, b.s)
                         [] OTHER -> b
          ELSE IF g.v = VBool(FALSE) THEN Val(result, g.s)
          ELSE Err("While guard must evaluate to a boolean", g.s)

\* While: one iteration per recursion, `result` the value of the last finished body
EvalWhile(n, result, s) ==
  IF s.fuel = 0 THEN Diverge(s)
  ELSE LET g == Eval(n.guard, [s EXCEPT !.fuel = @ - 1])
       IN IF g.k # "Value" THEN g
          ELSE IF g.v = VBool(TRUE)
               THEN LET b == Eval(n.body, g.s)
                    IN CASE b.k = "Value" -> EvalWhile(n, b.v, b.s)
                         [] b.k = "Break" -> Val(result, b.s)
                         [] OTHER -> b
          ELSE IF g.v = VBool(FALSE) THEN Val(result, g.s)
          ELSE Err("While guard must evaluate to a boolean", g.s)

EvalLetDeclaration(n, s) ==
  LET r == Eval(n.expr, s)
  IN IF r.k # "Value" THEN r
     ELSE IF n.var_type # TyNone /\ ~MatchesType(r.v, n.var_type)
          THEN Err("Type mismatch: variable '{identifier}' declared as {:?} but value has runtime type {}", r.s)
     ELSE LET s1 == IF r.v.tag = "Function" THEN CellInsert(r.s, r.v.cell, n.identifier, r.v) ELSE r.s
          IN Val(VUnit, SetEnv(s1, MapInsert(s1.env, n.identifier, r.v)))

EvalFunctionDeclaration(n, s) ==
  LET s1 == NewCell(s)
      cell == Len(s1.heap)
      func == VFunction(ParamNames(n.parameters), n.body, cell)
      s2 == CellInsert(s1, cell, n.name, func)
  IN Val(VUnit, SetEnv(s2, MapInsert(s2.env, n.name, func)))

EvalFunctionExpression(n, s) ==
  LET s1 == NewCell(s)
  IN Val(VFunction(ParamNames(n.parameters), n.body, Len(s1.heap)), s1)

\* FunctionCall's loop: each argument is evaluated in the caller's frame (s.env)
\* and bound to its parameter in local_env
EvalArgs(parameters, arguments, i, local_env, s) ==
  IF i > Len(arguments) THEN [Val(VUnit, s) EXCEPT !.v = [tag |-> "Env", env |-> local_env]]
  ELSE LET r == Eval(arguments[i], s)
       IN IF r.k # "Value" THEN r
          ELSE EvalArgs(parameters, arguments, i + 1, MapInsert(local_env, parameters[i], r.v), r.s)

\* One entry of `calls` per finished call: the caller's frame after the arguments,
\* the interpreter's frame after the call, the body's outcome and the call's.
CallEvent(pre, frame, post, body, result, callee) ==
  [pre |-> pre, frame |-> frame, post |-> post, body |-> body.k, body_v |-> body.v,
   result |-> result.k, result_v |-> result.v, msg |-> result.msg, callee |-> callee]

EvalFunctionCall(n, s) ==
  LET c == Eval(n.callee, s)
  IN IF c.k # "Value" THEN c
     ELSE IF c.v.tag # "Function" THEN Err("Callee is not a function", c.s)
     ELSE IF Len(c.v.parameters) # Len(n.arguments)
          THEN Err("Argument count mismatch: expected {}, found {}", c.s)
     ELSE LET a == EvalArgs(c.v.parameters, n.arguments, 1, LocalEnv(c.s.heap, c.v), c.s)
          IN IF a.k # "Value" THEN a
             ELSE IF a.s.fuel = 0 THEN Diverge(a.s)
             ELSE LET old_env == a.s.env
                      body == Eval(c.v.body, [SetEnv(a.s, a.v.env) EXCEPT !.fuel = @ - 1])
                      s1 == SetEnv(body.s, RestoreEnv(old_env, body.s.env))
                      res == CallResult(body, s1)
                  IN [res EXCEPT !.s.calls = Append(@, CallEvent(old_env, body.s.env, s1.env, body, res, n.callee))]

\* ArrayLiteral: the elements left to right
EvalElements(elements, i, values, s) ==
  IF i > Len(elements) THEN Val(VArray(values), s)
  ELSE LET r == Eval(elements[i], s)
       IN IF r.k # "Value" THEN r ELSE EvalElements(elements, i + 1, Append(values, r.v), r.s)

EvalArrayAccess(n, s) ==
  LET a == Eval(n.array, s)
  IN IF a.k # "Value" THEN a
     ELSE LET i == Eval(n.index, a.s)
          IN IF i.k # "Value" THEN i
             ELSE IF a.v.tag = "Array" /\ i.v.tag = "Int"
                  THEN IF i.v.i < 0 THEN Err("Negative array index", i.s)
                       ELSE IF GetElement(a.v.elems, i.v.i).some THEN Val(GetElement(a.v.elems, i.v.i).v, i.s)
                       ELSE Err("Index out of bounds", i.s)
             ELSE Err("Invalid array access", i.s)

\* A slot assignment on arrays that are shared: the write shows under every
\* name that holds the same array.
AssignArraySlotOfSharedArray(left, rt, s) ==
  LET i == Eval(left.index, s)
      array_name == IF left.array.kind = "Identifier" THEN left.array.name ELSE ""
      writable == /\ i.k = "Value" /\ i.v.tag = "Int" /\ i.v.i >= 0
                  /\ Has(i.s.env, array_name) /\ i.s.env[array_name].tag = "Array"
                  /\ ~OutOfBounds(i.v.i, Len(i.s.env[array_name].elems))
  IN IF ~writable THEN Err("Invalid array access", s)
     ELSE Val(rt, SetEnv(i.s, [name \in DOMAIN i.s.env |->
                                 IF i.s.env[name] = i.s.env[array_name]
                                 THEN VArray([i.s.env[array_name].elems EXCEPT ![i.v.i + 1] = rt])
                                 ELSE i.s.env[name]]))

\* BinaryExpression "=" on an ArrayAccess target: only `name[index]` is written
AssignArraySlot(left, rt, s) ==
  IF left.array.kind # "Identifier"
  THEN Err("Left side of assignment must be an identifier or array access", s)
  ELSE LET i == Eval(left.index, s)
           array_name == left.array.name
       IN IF i.k # "Value" THEN i
          ELSE IF i.v.tag # "Int" THEN Err("Array index must be an integer", i.s)
          ELSE IF i.v.i < 0 THEN Err("Negative array index", i.s)
          ELSE IF ~Has(i.s.env, array_name) THEN Err("Undefined variable: {array_name}", i.s)
          ELSE LET array_values == i.s.env[array_name]
               IN IF array_values.tag # "Array" THEN Err("{array_name} is not an array", i.s)
                  ELSE IF OutOfBounds(i.v.i, Len(array_values.elems))
                       THEN Err("Index {idx} out of bounds for array '{array_name}' of length {len}", i.s)
                  ELSE Val(rt, SetEnv(i.s, MapInsert(i.s.env, array_name,
                                      VArray([array_values.elems EXCEPT ![i.v.i + 1] = rt]))))

\* An assignment that does not read its target: the right side is evaluated
\* and the target is written.
EvalBinaryExpressionWritingUnread(n, s) ==
  IF n.operator = "="
  THEN LET r == Eval(n.right, s)
       IN IF r.k # "Value" THEN r
          ELSE CASE n.left.kind = "Identifier" -> Val(r.v, SetEnv(r.s, MapInsert(r.s.env, n.left.name, r.v)))
                 [] n.left.kind = "ArrayAccess" -> AssignArraySlot(n.left, r.v, r.s)
                 [] OTHER -> Err("Left side of assignment must be an identifier or array access", r.s)
  ELSE LET l == Eval(n.left, s)
       IN IF l.k # "Value" THEN l
          ELSE LET r == Eval(n.right, l.s)
               IN IF r.k # "Value" THEN r
                  ELSE LET b == BinaryOp(l.v, r.v, n.operator)
                       IN IF b.ok THEN Val(b.v, r.s) ELSE ErrShowing(b.msg, <<l.v, r.v>>, r.s)

EvalBinaryExpression(n, s) ==
  LET l == Eval(n.left, s)
  IN IF l.k # "Value" THEN l
     ELSE LET r == Eval(n.right, l.s)
          IN IF r.k # "Value" THEN r
             ELSE IF n.operator = "="
                  THEN CASE n.left.kind = "Identifier" -> Val(r.v, SetEnv(r.s, MapInsert(r.s.env, n.left.name, r.v)))
                         [] n.left.kind = "ArrayAccess" -> AssignArraySlot(n.left, r.v, r.s)
                         [] OTHER -> Err("Left side of assignment must be an identifier or array access", r.s)
             ELSE LET b == BinaryOp(l.v, r.v, n.operator)
                  IN IF b.ok THEN Val(b.v, r.s) ELSE ErrShowing(b.msg, <<l.v, r.v>>, r.s)

\* apply_increment_to_array_access's loop: every index node is evaluated, in order,
\* before the array is touched
EvalIndices(index_nodes, i, evaluated, s) ==
  IF i > Len(index_nodes) THEN [Val(VUnit, s) EXCEPT !.v = [tag |-> "Indices", idx |-> evaluated]]
  ELSE LET r == Eval(index_nodes[i], s)
       IN IF r.k # "Value" THEN r
          ELSE IF r.v.tag # "Int" THEN Err("Array index must be an integer", r.s)
          ELSE IF r.v.i < 0 THEN Err("Negative array index", r.s)
          ELSE EvalIndices(index_nodes, i + 1, Append(evaluated, r.v.i), r.s)

ApplyIncrementToArrayAccess(operand, delta, is_postfix, s) ==
  LET chain == CollectChain(operand, << >>)
  IN IF ~chain.some \/ Len(chain.indices) = 0
     THEN Err("Operand must be an identifier or array access for increment/decrement", s)
     ELSE LET ix == EvalIndices(chain.indices, 1, << >>, s)
          IN IF ix.k # "Value" THEN ix
             ELSE IF ~Has(ix.s.env, chain.name) THEN Err("Undefined variable: {array_name}", ix.s)
             ELSE LET m == MutateArrayElement(ix.s.env[chain.name], ix.v.idx, 0, delta)
                  IN IF ~m.ok THEN Err(m.msg, ix.s)
                     ELSE Val(IncResult(is_postfix, m.old, m.new),
                              SetEnv(ix.s, MapInsert(ix.s.env, chain.name, m.cur)))

\* UnaryExpression "++" | "--"
EvalIncrement(n, s) ==
  LET delta == IF n.operator = "++" THEN 1 ELSE -1
  IN CASE n.operand.kind = "Identifier" ->
            IF ~Has(s.env, n.operand.name) THEN Err("Undefined variable: {name}", s)
            ELSE IF s.env[n.operand.name].tag # "Int"
                 THEN ErrShowing("Unsupported unary operation: {operator} (postfix: {is_postfix}) on {other:?}",
                                 <<s.env[n.operand.name]>>, s)
            ELSE LET old_int == s.env[n.operand.name].i
                     new_int == old_int + delta
                 IN Val(IncResult(n.is_postfix, old_int, new_int),
                        SetEnv(s, MapInsert(s.env, n.operand.name, VInt(new_int))))
       [] n.operand.kind = "ArrayAccess" -> ApplyIncrementToArrayAccess(n.operand, delta, n.is_postfix, s)
       [] OTHER -> Err("Operand must be an identifier or array access for increment/decrement", s)

EvalUnaryExpression(n, s) ==
  IF n.operator \in {"++", "--"} THEN EvalIncrement(n, s)
  ELSE LET o == Eval(n.operand, s)
       IN IF o.k # "Value" THEN o
          ELSE IF n.operator = "-" /\ ~n.is_postfix /\ o.v.tag = "Int" THEN Val(VInt(-o.v.i), o.s)
          ELSE IF n.operator = "!" /\ ~n.is_postfix /\ o.v.tag = "Bool" THEN Val(VBool(~o.v.b), o.s)
          ELSE ErrShowing("Unsupported unary operation: {operator} (postfix: {is_postfix}) on {value:?}", <<o.v>>, o.s)

\* Interpreter::eval
Eval(n, s) ==
  CASE n.kind = "Print" -> EvalPrint(n.expressions, 1, << >>, s)
    [] n.kind = "Body" -> EvalBodyNodes(n.nodes, 1, VUnit, s)
    [] n.kind = "If" -> EvalIf(n, s)
    [] n.kind = "While" -> EvalWhile(n, VUnit, s)
    [] n.kind = "LetDeclaration" -> EvalLetDeclaration(n, s)
    [] n.kind = "FunctionDeclaration" -> EvalFunctionDeclaration(n, s)
    [] n.kind = "Return" -> LET r == Eval(n.expr, s) IN IF r.k = "Value" THEN Ret(r.v, r.s) ELSE r
    [] n.kind = "Break" -> Brk(s)
    [] n.kind = "FunctionCall" -> EvalFunctionCall(n, s)
    [] n.kind = "FunctionExpression" -> EvalFunctionExpression(n, s)
    [] n.kind = "UnitLiteral" -> Val(VUnit, s)
    [] n.kind = "NumberLiteral" -> Val(VInt(ParseI64(n.digits, 1, 0)), s)
    [] n.kind = "StringLiteral" -> Val(VString(n.text), s)
    [] n.kind = "BoolLiteral" ->
         IF n.lexeme \in {"true", "false"} THEN Val(VBool(n.lexeme = "true"), s)
         ELSE Err("Invalid boolean literal", s)
    [] n.kind = "Identifier" ->
         IF Has(s.env, n.name) THEN Val(s.env[n.name], s) ELSE Err("Undefined variable: {name}", s)
    [] n.kind = "ArrayLiteral" -> EvalElements(n.elements, 1, << >>, s)
    [] n.kind = "ArrayAccess" -> EvalArrayAccess(n, s)
    [] n.kind = "BinaryExpression" -> EvalBinaryExpression(n, s)
    [] n.kind = "UnaryExpression" -> EvalUnaryExpression(n, s)
    [] n.kind = "ExpressionStatement" -> Eval(n.expr, s)

(* ------------------------------- lexer -------------------------------- *)

\* A source text is a sequence of characters (strings of length one); a lexeme
\* is kept as the string `Text` finds for its characters.
Whitespace == {" ", "\t", "\n", "\r", "\f"}
Letters ==
  { "a", "b", "c", "d", "e", "f", "g", "h", "i", "j", "k", "l", "m", "n", "o", "p", "q", "r", "s", "t", "u", "v", "w", "x", "y", "z",
    "A", "B", "C", "D", "E", "F", "G", "H", "I", "J", "K", "L", "M", "N", "O", "P", "Q", "R", "S", "T", "U", "V", "W", "X", "Y", "Z" }
DigitChars == {"0", "1", "2", "3", "4", "5", "6", "7", "8", "9"}
WordChars == Letters \cup DigitChars \cup {"_"}

\* Span::new and Span::point
NewSpan(start_line, start_column, end_line, end_column) ==
  [start_line |-> start_line, start_column |-> start_column, end_line |-> end_line, end_column |-> end_column]
Point(line, column) == NewSpan(line, column, line, column)

\* Lexer::new
NewLexer == [tokens |-> << >>, pos |-> 0, line |-> 1, column |-> 1]

\* &self.source[self.pos..]
RemainingSource(source_, pos) == SubSeq(source_, pos + 1, Len(source_))

IsPrefix(text, rest) == Len(text) <= Len(rest) /\ SubSeq(rest, 1, Len(text)) = text

\* the length of the longest prefix of `rest` made of characters of `class`
RECURSIVE RunLength(_, _)
RunLength(rest, class) ==
  IF rest = << >> \/ Head(rest) \notin class THEN 0 ELSE 1 + RunLength(Tail(rest), class)

\* "(.*?)": from the opening quote to the first closing quote on the same line
RECURSIVE StringLength(_, _)
StringLength(rest, j) ==
  IF j > Len(rest) \/ rest[j] = "\n" THEN 0
  ELSE IF rest[j] = "\"" THEN j
  ELSE StringLength(rest, j + 1)

\* `kw\b`: the keyword, not followed by a word character
Keyword(text, name) == [kind |-> "word", text |-> text, name |-> name]
Symbol(text, name) == [kind |-> "symbol", text |-> text, name |-> name]

\* next_token's `patterns`, in its order
Patterns ==
  <<
     Keyword(<<"p", "r", "i", "n", "t">>, "Print"),
     Keyword(<<"l", "e", "t">>, "Let"),
     Keyword(<<"f", "n">>, "Fn"),
     Keyword(<<"a", "l", "i", "a", "s">>, "Alias"),
     Keyword(<<"i", "n", "t">>, "Int"),
     Keyword(<<"f", "l", "o", "a", "t">>, "Float"),
     Keyword(<<"s", "t", "r", "i", "n", "g">>, "String"),
     Keyword(<<"b", "o", "o", "l">>, "Bool"),
     Keyword(<<"a", "r", "r", "a", "y">>, "Array"),
     Keyword(<<"r", "e", "t", "u", "r", "n">>, "Return"),
     Keyword(<<"b", "r", "e", "a", "k">>, "Break"),
     Keyword(<<"i", "f">>, "If"),
     Keyword(<<"e", "l", "s", "e">>, "Else"),
     Keyword(<<"w", "h", "i", "l", "e">>, "While"),
     Keyword(<<"n", "o", "t", "h", "i", "n", "g">>, "Nothing"),
     Keyword(<<"t", "r", "u", "e">>, "True"),
     Keyword(<<"f", "a", "l", "s", "e">>, "False"),
     Symbol(<<".">>, "Dot"),
     Symbol(<<",">>, "Comma"),
     Symbol(<<":">>, "Colon"),
     Symbol(<<";">>, "Semicolon"),
     Symbol(<<"-", ">">>, "SlimArrow"),
     Symbol(<<"=", ">">>, "BoldArrow"),
     Symbol(<<"=", "=">>, "Eq"),
     Symbol(<<"!", "=">>, "NotEq"),
     Symbol(<<"=">>, "Assign"),
     Symbol(<<"!">>, "Not"),
     Symbol(<<">", "=">>, "Ge"),
     Symbol(<<"<", "=">>, "Le"),
     Symbol(<<">">>, "Gt"),
     Symbol(<<"<">>, "Lt"),
     Symbol(<<"+", "+">>, "PlusPlus"),
     Symbol(<<"-", "-">>, "MinusMinus"),
     Symbol(<<"+">>, "Plus"),
     Symbol(<<"-">>, "Minus"),
     Symbol(<<"*">>, "Times"),
     Symbol(<<"/">>, "Div"),
     Symbol(<<"%">>, "Percent"),
     Symbol(<<"&", "&">>, "And"),
     Symbol(<<"|", "|">>, "Or"),
     Symbol(<<"(">>, "LPar"),
     Symbol(<<")">>, "RPar"),
     Symbol(<<"[">>, "LSqu"),
     Symbol(<<"]">>, "RSqu"),
     Symbol(<<"{">>, "LBra"),
     Symbol(<<"}">>, "RBra"),
     [kind |-> "number", text |-> << >>, name |-> "Number"],
     [kind |-> "string", text |-> << >>, name |-> "StringLiteral"],
     [kind |-> "identifier", text |-> << >>, name |-> "Identifier"],
     [kind |-> "unknown", text |-> << >>, name |-> "Unknown"]
  >>

\* A matcher without the keywords' word boundary: `kw` instead of `kw\b`.
MatchStartWithoutBoundary(pattern, rest) ==
  CASE pattern.kind \in {"word", "symbol"} -> IF IsPrefix(pattern.text, rest) THEN Len(pattern.text) ELSE 0
    [] pattern.kind = "number" -> RunLength(rest, DigitChars)
    [] pattern.kind = "string" -> IF Head(rest) = "\"" THEN StringLength(rest, 2) ELSE 0
    [] pattern.kind = "identifier" ->
         IF Head(rest) \in Letters \cup {"_"} THEN RunLength(rest, WordChars) ELSE 0
    [] pattern.kind = "unknown" -> Len(rest)

\* match_start: the length of the pattern's match at the start of `rest`, 0 for none
MatchStart(pattern, rest) ==
  CASE pattern.kind = "word" ->
         IF IsPrefix(pattern.text, rest)
            /\ (Len(rest) = Len(pattern.text) \/ rest[Len(pattern.text) + 1] \notin WordChars)
         THEN Len(pattern.text) ELSE 0
    [] pattern.kind = "symbol" -> IF IsPrefix(pattern.text, rest) THEN Len(pattern.text) ELSE 0
    [] pattern.kind = "number" -> RunLength(rest, DigitChars)
    [] pattern.kind = "string" -> IF Head(rest) = "\"" THEN StringLength(rest, 2) ELSE 0
    [] pattern.kind = "identifier" ->
         IF Head(rest) \in Letters \cup {"_"} THEN RunLength(rest, WordChars) ELSE 0
    [] pattern.kind = "unknown" -> Len(rest)

\* The first pattern of the list that matches wins.
FirstMatch(rest) ==
  CHOOSE i \in DOMAIN Patterns :
    /\ MatchStart(Patterns[i], rest) > 0
    /\ \A j \in 1..(i - 1) : MatchStart(Patterns[j], rest) = 0

\* skip_whitespace / consume_n_char: only `pos` moves
SkipWhitespace(lx, source_) ==
  [lx EXCEPT !.pos = @ + RunLength(RemainingSource(source_, lx.pos), Whitespace)]

\* advance_with's loop over the characters of `text`
RECURSIVE AdvanceChars(_, _, _)
AdvanceChars(text, i, c) ==
  IF i > Len(text) THEN c
  ELSE AdvanceChars(text, i + 1,
         IF text[i] = "\n"
         THEN [line |-> c.line + 1, column |-> 1, end_line |-> c.line, end_column |-> c.column]
         ELSE [line |-> c.line, column |-> c.column + 1, end_line |-> c.line, end_column |-> c.column])

\* advance_with: the span of `text` at the lexer's position, and the lexer after it
AdvanceWith(lx, text) ==
  LET c == AdvanceChars(text, 1, [line |-> lx.line, column |-> lx.column,
                                  end_line |-> lx.line, end_column |-> lx.column])
  IN [span |-> NewSpan(lx.line, lx.column, c.end_line, c.end_column),
      lexer |-> [lx EXCEPT !.pos = @ + Len(text), !.line = c.line, !.column = c.column]]

\* The spelling of the lexemes of more than one character.
Lexemes ==
  { <<"print", <<"p", "r", "i", "n", "t">> >>, <<"let", <<"l", "e", "t">> >>, <<"fn", <<"f", "n">> >>,
    <<"int", <<"i", "n", "t">> >>, <<"bool", <<"b", "o", "o", "l">> >>,
    <<"array", <<"a", "r", "r", "a", "y">> >>, <<"return", <<"r", "e", "t", "u", "r", "n">> >>,
    <<"if", <<"i", "f">> >>, <<"else", <<"e", "l", "s", "e">> >>,
    <<"while", <<"w", "h", "i", "l", "e">> >>, <<"break", <<"b", "r", "e", "a", "k">> >>,
    <<"nothing", <<"n", "o", "t", "h", "i", "n", "g">> >>,
    <<"true", <<"t", "r", "u", "e">> >>, <<"false", <<"f", "a", "l", "s", "e">> >>,
    <<"->", <<"-", ">">> >>, <<"=>", <<"=", ">">> >>, <<"==", <<"=", "=">> >>, <<"!=", <<"!", "=">> >>,
    <<">=", <<">", "=">> >>, <<"<=", <<"<", "=">> >>, <<"++", <<"+", "+">> >>, <<"--", <<"-", "-">> >>,
    <<"&&", <<"&", "&">> >>, <<"||", <<"|", "|">> >>,
    <<"10", <<"1", "0">> >>, <<"xs", <<"x", "s">> >>, <<"intx", <<"i", "n", "t", "x">> >>,
    <<"let1", <<"l", "e", "t", "1">> >>, <<"print_x", <<"p", "r", "i", "n", "t", "_", "x">> >>,
    <<"truex", <<"t", "r", "u", "e", "x">> >>, <<"iff", <<"i", "f", "f">> >>,
    <<"\"hi\"", <<"\"", "h", "i", "\"">> >>, <<"\"\"", <<"\"", "\"">> >>,
    <<"alias", <<"a", "l", "i", "a", "s">> >>, <<"float", <<"f", "l", "o", "a", "t">> >>,
    <<"string", <<"s", "t", "r", "i", "n", "g">> >>, <<"printx", <<"p", "r", "i", "n", "t", "x">> >>,
    <<"print1", <<"p", "r", "i", "n", "t", "1">> >>, <<"print_", <<"p", "r", "i", "n", "t", "_">> >>,
    <<"letx", <<"l", "e", "t", "x">> >>, <<"let_", <<"l", "e", "t", "_">> >>,
    <<"fnx", <<"f", "n", "x">> >>, <<"fn1", <<"f", "n", "1">> >>,
    <<"fn_", <<"f", "n", "_">> >>, <<"aliasx", <<"a", "l", "i", "a", "s", "x">> >>,
    <<"alias1", <<"a", "l", "i", "a", "s", "1">> >>, <<"alias_", <<"a", "l", "i", "a", "s", "_">> >>,
    <<"int1", <<"i", "n", "t", "1">> >>, <<"int_", <<"i", "n", "t", "_">> >>,
    <<"floatx", <<"f", "l", "o", "a", "t", "x">> >>, <<"float1", <<"f", "l", "o", "a", "t", "1">> >>,
    <<"float_", <<"f", "l", "o", "a", "t", "_">> >>, <<"stringx", <<"s", "t", "r", "i", "n", "g", "x">> >>,
    <<"string1", <<"s", "t", "r", "i", "n", "g", "1">> >>, <<"string_", <<"s", "t", "r", "i", "n", "g", "_">> >>,
    <<"boolx", <<"b", "o", "o", "l", "x">> >>, <<"bool1", <<"b", "o", "o", "l", "1">> >>,
    <<"bool_", <<"b", "o", "o", "l", "_">> >>, <<"arrayx", <<"a", "r", "r", "a", "y", "x">> >>,
    <<"array1", <<"a", "r", "r", "a", "y", "1">> >>, <<"array_", <<"a", "r", "r", "a", "y", "_">> >>,
    <<"returnx", <<"r", "e", "t", "u", "r", "n", "x">> >>, <<"return1", <<"r", "e", "t", "u", "r", "n", "1">> >>,
    <<"return_", <<"r", "e", "t", "u", "r", "n", "_">> >>, <<"breakx", <<"b", "r", "e", "a", "k", "x">> >>,
    <<"break1", <<"b", "r", "e", "a", "k", "1">> >>, <<"break_", <<"b", "r", "e", "a", "k", "_">> >>,
    <<"ifx", <<"i", "f", "x">> >>, <<"if1", <<"i", "f", "1">> >>,
    <<"if_", <<"i", "f", "_">> >>, <<"elsex", <<"e", "l", "s", "e", "x">> >>,
    <<"else1", <<"e", "l", "s", "e", "1">> >>, <<"else_", <<"e", "l", "s", "e", "_">> >>,
    <<"whilex", <<"w", "h", "i", "l", "e", "x">> >>, <<"while1", <<"w", "h", "i", "l", "e", "1">> >>,
    <<"while_", <<"w", "h", "i", "l", "e", "_">> >>, <<"nothingx", <<"n", "o", "t", "h", "i", "n", "g", "x">> >>,
    <<"nothing1", <<"n", "o", "t", "h", "i", "n", "g", "1">> >>, <<"nothing_", <<"n", "o", "t", "h", "i", "n", "g", "_">> >>,
    <<"true1", <<"t", "r", "u", "e", "1">> >>, <<"true_", <<"t", "r", "u", "e", "_">> >>,
    <<"falsex", <<"f", "a", "l", "s", "e", "x">> >>, <<"false1", <<"f", "a", "l", "s", "e", "1">> >>,
    <<"false_", <<"f", "a", "l", "s", "e", "_">> >> }

\* the String of a lexeme's characters
Text(chars) ==
  IF Len(chars) = 1 THEN chars[1]
  ELSE IF \E w \in Lexemes : w[2] = chars THEN (CHOOSE w \in Lexemes : w[2] = chars)[1]
  ELSE "?"

\* the characters of a String
Chars(word) ==
  IF \E w \in Lexemes : w[1] = word THEN (CHOOSE w \in Lexemes : w[1] = word)[2] ELSE <<word>>

Token(tok_name, lexeme, span) == [tok_name |-> tok_name, lexeme |-> lexeme, span |-> span]

\* A lexer that refuses nothing.
NothingUnknown(token_name) == FALSE

\* `token_name == TN::Unknown`: no pattern but the last one matched
IsUnknown(token_name) == token_name = "Unknown"

\* next_token: the token at the lexer's position, or the Lexing error
NextToken(lx, source_) ==
  LET l1 == SkipWhitespace(lx, source_)
      rest == RemainingSource(source_, l1.pos)
  IN IF l1.pos >= Len(source_)
     THEN [ok |-> TRUE, token |-> Token("Eof", "\\0", Point(l1.line, l1.column)), msg |-> "", lexer |-> l1]
     ELSE LET pattern == Patterns[FirstMatch(rest)]
              lexeme == SubSeq(rest, 1, MatchStart(pattern, rest))
              a == AdvanceWith(l1, lexeme)
          IN IF IsUnknown(pattern.name)
             THEN [ok |-> FALSE, token |-> Token("Unknown", "?", a.span),
                   msg |-> "Unknown token: {lexeme}", lexer |-> a.lexer]
             ELSE [ok |-> TRUE, token |-> Token(pattern.name, Text(lexeme), a.span), msg |-> "", lexer |-> a.lexer]

\* lexe: next_token until Eof, each token pushed; an error leaves the loop at once
RECURSIVE Lexe(_, _)
Lexe(lx, source_) ==
  LET r == NextToken(lx, source_)
  IN IF ~r.ok THEN [ok |-> FALSE, msg |-> r.msg, span |-> r.token.span, lexer |-> r.lexer]
     ELSE LET l1 == [r.lexer EXCEPT !.tokens = Append(@, r.token)]
          IN IF r.token.tok_name = "Eof" THEN [ok |-> TRUE, msg |-> "", span |-> r.token.span, lexer |-> l1]
             ELSE Lexe(l1, source_)

\* the source text spelled by a sequence of words
RECURSIVE Source(_)
Source(words) == IF words = << >> THEN << >> ELSE Chars(Head(words)) \o Source(Tail(words))

(* ------------------------------- parser ------------------------------- *)

\* A merge that takes the other span's column whenever it is smaller (larger),
\* whatever the lines are.
MergeComparingColumnsAlone(self, other) ==
  LET start_other == other.start_line < self.start_line \/ other.start_column < self.start_column
      end_other == other.end_line > self.end_line \/ other.end_column > self.end_column
  IN NewSpan(IF start_other THEN other.start_line ELSE self.start_line,
             IF start_other THEN other.start_column ELSE self.start_column,
             IF end_other THEN other.end_line ELSE self.end_line,
             IF end_other THEN other.end_column ELSE self.end_column)

\* Span::merge
Merge(self, other) ==
  LET start_other == \/ other.start_line < self.start_line
                     \/ (other.start_line = self.start_line /\ other.start_column < self.start_column)
      end_other == \/ other.end_line > self.end_line
                   \/ (other.end_line = self.end_line /\ other.end_column > self.end_column)
  IN NewSpan(IF start_other THEN other.start_line ELSE self.start_line,
             IF start_other THEN other.start_column ELSE self.start_column,
             IF end_other THEN other.end_line ELSE self.end_line,
             IF end_other THEN other.end_column ELSE self.end_column)

\* A production's result: Ok(node) with the node's span and the parser's `pos`
\* after it, or Err(FlavorError) with the error's span.  For parse_type the
\* node is the Type, for a list production the sequence of its items.
POk(node, span, pos) == [ok |-> TRUE, node |-> node, span |-> span, pos |-> pos, msg |-> ""]
PErr(msg, span, pos) == [ok |-> FALSE, node |-> NoNode, span |-> span, pos |-> pos, msg |-> msg]

CurrentTok(tokens, pos) == tokens[pos + 1]
ConsumeTok(tokens, pos) == IF pos < Len(tokens) - 1 THEN pos + 1 ELSE pos

\* expect_tok: the result's node is the token
ExpectTok(tokens, pos, expected) ==
  LET tok == CurrentTok(tokens, pos)
  IN IF tok.tok_name = expected THEN POk(tok, tok.span, ConsumeTok(tokens, pos))
     ELSE PErr("Expected token {:?}, found {:?} ('{}')", tok.span, pos)

\* get_precedence; NoPrecedence is None
NoPrecedence == -1
\* A table other than the parser's: `&&` and `||` have changed places.
GetPrecedenceOrAboveAnd(token) ==
  CASE token.tok_name = "Assign" -> 10
    [] token.tok_name \in {"Times", "Div", "Percent"} -> 150
    [] token.tok_name \in {"Plus", "Minus"} -> 120
    [] token.tok_name \in {"Gt", "Lt", "Ge", "Le"} -> 100
    [] token.tok_name \in {"Eq", "NotEq"} -> 80
    [] token.tok_name = "And" -> 40
    [] token.tok_name = "Or" -> 50
    [] OTHER -> NoPrecedence

GetPrecedence(token) ==
  CASE token.tok_name = "Assign" -> 10
    [] token.tok_name \in {"Times", "Div", "Percent"} -> 150
    [] token.tok_name \in {"Plus", "Minus"} -> 120
    [] token.tok_name \in {"Gt", "Lt", "Ge", "Le"} -> 100
    [] token.tok_name \in {"Eq", "NotEq"} -> 80
    [] token.tok_name = "And" -> 50
    [] token.tok_name = "Or" -> 40
    [] OTHER -> NoPrecedence

\* the decimal digits of a Number lexeme
DigitValue(ch) == CHOOSE d \in 0..9 : <<"0", "1", "2", "3", "4", "5", "6", "7", "8", "9">>[d + 1] = ch
NumberDigits(lexeme) == LET cs == Chars(lexeme) IN [k \in 1..Len(cs) |-> DigitValue(cs[k])]

RECURSIVE ParseType(_, _), TypeLoop(_, _, _, _), ParseFunctionTypeSignature(_, _)
RECURSIVE ParamLoop(_, _, _, _), ParseStatement(_, _), BodyLoop(_, _, _, _), ParseBody(_, _)
RECURSIVE ParseExpressions(_, _, _, _, _), ParseBinaryExpression(_, _, _), BinaryLoop(_, _, _)
RECURSIVE ParsePostfixExpression(_, _), PostfixLoop(_, _), ParseUnaryExpression(_, _), ParsePrimary(_, _)
RECURSIVE ParseFnParameters(_, _), ParseFunctionRest(_, _, _), ParseClosedExpressions(_, _, _, _)
RECURSIVE ParsePrintStatement(_, _), ParseWhile(_, _), ParseIf(_, _), ParseReturn(_, _)
RECURSIVE ParseFunctionDeclaration(_, _), ParseLetStatement(_, _), ParseExpressionStatement(_, _)

\* `let x = production?; rest`: an Err is returned as it is, an Ok result goes on
Then(r, Rest(_)) == IF r.ok THEN Rest(r) ELSE r

\* parse_type
ParseType(tokens, pos) ==
  CASE CurrentTok(tokens, pos).tok_name = "Int" -> POk(TInt, CurrentTok(tokens, pos).span, ConsumeTok(tokens, pos))
    [] CurrentTok(tokens, pos).tok_name = "Float" -> POk(TFloat, CurrentTok(tokens, pos).span, ConsumeTok(tokens, pos))
    [] CurrentTok(tokens, pos).tok_name = "Bool" -> POk(TBool, CurrentTok(tokens, pos).span, ConsumeTok(tokens, pos))
    [] CurrentTok(tokens, pos).tok_name = "String" -> POk(TString, CurrentTok(tokens, pos).span, ConsumeTok(tokens, pos))
    [] CurrentTok(tokens, pos).tok_name = "Nothing" -> POk(TUnit, CurrentTok(tokens, pos).span, ConsumeTok(tokens, pos))
    [] CurrentTok(tokens, pos).tok_name = "Identifier" ->
         POk(TCustom(CurrentTok(tokens, pos).lexeme), CurrentTok(tokens, pos).span, ConsumeTok(tokens, pos))
    [] CurrentTok(tokens, pos).tok_name = "Array" ->
         Then(ExpectTok(tokens, ConsumeTok(tokens, pos), "LPar"), LAMBDA lpar :
         Then(ParseType(tokens, lpar.pos), LAMBDA element :
         Then(ExpectTok(tokens, element.pos, "RPar"), LAMBDA rpar :
           POk(TArray(element.node),
               Merge(Merge(Merge(CurrentTok(tokens, pos).span, lpar.span), element.span), rpar.span),
               rpar.pos))))
    [] CurrentTok(tokens, pos).tok_name = "LPar" -> ParseFunctionTypeSignature(tokens, pos)
    [] OTHER -> PErr("Expected a type", CurrentTok(tokens, pos).span, pos)

\* the loop of parse_function_type_signature over the parameter types
TypeLoop(tokens, pos, span, param_types) ==
  Then(ParseType(tokens, pos), LAMBDA ty :
    IF CurrentTok(tokens, ty.pos).tok_name = "Comma"
    THEN TypeLoop(tokens, ConsumeTok(tokens, ty.pos),
                  Merge(Merge(span, ty.span), CurrentTok(tokens, ty.pos).span),
                  Append(param_types, ty.node))
    ELSE POk(Append(param_types, ty.node), Merge(span, ty.span), ty.pos))

\* parse_function_type_signature
ParseFunctionTypeSignature(tokens, pos) ==
  Then(ExpectTok(tokens, pos, "LPar"), LAMBDA lpar :
  Then(IF CurrentTok(tokens, lpar.pos).tok_name # "RPar"
       THEN TypeLoop(tokens, lpar.pos, lpar.span, << >>)
       ELSE POk(<< >>, lpar.span, lpar.pos), LAMBDA types :
  Then(ExpectTok(tokens, types.pos, "RPar"), LAMBDA rpar :
  Then(ExpectTok(tokens, rpar.pos, "SlimArrow"), LAMBDA arrow :
  Then(ParseType(tokens, arrow.pos), LAMBDA ret :
    POk(TFunction(types.node, ret.node),
        Merge(Merge(Merge(types.span, rpar.span), arrow.span), ret.span), ret.pos))))))

\* the loop of parse_fn_parameters over `name : type`
ParamLoop(tokens, pos, span, params) ==
  Then(ExpectTok(tokens, pos, "Identifier"), LAMBDA name :
  Then(ExpectTok(tokens, name.pos, "Colon"), LAMBDA colon :
  Then(ParseType(tokens, colon.pos), LAMBDA ty :
    IF CurrentTok(tokens, ty.pos).tok_name = "Comma"
    THEN ParamLoop(tokens, ConsumeTok(tokens, ty.pos),
                   Merge(Merge(Merge(Merge(span, name.span), colon.span), ty.span),
                         CurrentTok(tokens, ty.pos).span),
                   Append(params, Param(name.node.lexeme, ty.node)))
    ELSE POk(Append(params, Param(name.node.lexeme, ty.node)),
             Merge(Merge(Merge(span, name.span), colon.span), ty.span), ty.pos))))

\* parse_fn_parameters
ParseFnParameters(tokens, pos) ==
  Then(ExpectTok(tokens, pos, "LPar"), LAMBDA lpar :
  Then(IF CurrentTok(tokens, lpar.pos).tok_name # "RPar"
       THEN ParamLoop(tokens, lpar.pos, lpar.span, << >>)
       ELSE POk(<< >>, lpar.span, lpar.pos), LAMBDA params :
  Then(ExpectTok(tokens, params.pos, "RPar"), LAMBDA rpar :
    POk(params.node, Merge(params.span, rpar.span), rpar.pos))))

\* the part `(parameters) -> type body` shared by parse_function_declaration and
\* parse_primary's Fn arm; the node is <<parameters, return type, body>>
ParseFunctionRest(tokens, pos, span) ==
  Then(ParseFnParameters(tokens, pos), LAMBDA params :
  Then(ExpectTok(tokens, params.pos, "SlimArrow"), LAMBDA arrow :
  Then(ParseType(tokens, arrow.pos), LAMBDA ret :
  Then(ParseBody(tokens, ret.pos), LAMBDA body :
    POk(<<params.node, ret.node, body.node>>,
        Merge(Merge(Merge(Merge(span, params.span), arrow.span), ret.span), body.span),
        body.pos)))))

\* the comma-separated expressions of parse_print_statement (`stop` is
\* "Semicolon": the loop head looks for it again after each comma), of a call's
\* arguments and of an array literal's elements (`stop` is "": no such test)
ParseExpressions(tokens, pos, span, exprs, stop) ==
  IF CurrentTok(tokens, pos).tok_name = stop THEN POk(exprs, span, pos)
  ELSE Then(ParseBinaryExpression(tokens, pos, 0), LAMBDA expr :
         IF CurrentTok(tokens, expr.pos).tok_name = "Comma"
         THEN ParseExpressions(tokens, ConsumeTok(tokens, expr.pos),
                               Merge(Merge(span, expr.span), CurrentTok(tokens, expr.pos).span),
                               Append(exprs, expr.node), stop)
         ELSE POk(Append(exprs, expr.node), Merge(span, expr.span), expr.pos))

\* a list of expressions up to its closing token, where the list may be empty
ParseClosedExpressions(tokens, pos, span, close) ==
  Then(IF CurrentTok(tokens, pos).tok_name # close
       THEN ParseExpressions(tokens, pos, span, << >>, "")
       ELSE POk(<< >>, span, pos), LAMBDA exprs :
  Then(ExpectTok(tokens, exprs.pos, close), LAMBDA tok :
    POk(exprs.node, Merge(exprs.span, tok.span), tok.pos)))

\* parse_primary's arms for the tokens that are a whole expression
ParseLiteral(tok, next) ==
  CASE tok.tok_name = "Nothing" -> POk(UnitLit, tok.span, next)
    [] tok.tok_name = "Number" -> POk(NumLit(NumberDigits(tok.lexeme)), tok.span, next)
    [] tok.tok_name \in {"True", "False"} -> POk(BoolLit(tok.lexeme), tok.span, next)
    [] tok.tok_name = "StringLiteral" -> POk(StrLit(tok.lexeme), tok.span, next)
    [] tok.tok_name = "Identifier" -> POk(Id(tok.lexeme), tok.span, next)

\* A last arm that recovers: the token is left where it is and the expression
\* is taken to be `nothing`.
UnexpectedTokenAsNothing(tokens, pos) == POk(UnitLit, CurrentTok(tokens, pos).span, pos)

\* parse_primary's last arm: no expression starts with this token
UnexpectedToken(tokens, pos) ==
  PErr("Unexpected token in expression: {tok:?}", CurrentTok(tokens, pos).span, pos)

\* parse_primary
ParsePrimary(tokens, pos) ==
  CASE CurrentTok(tokens, pos).tok_name \in {"Nothing", "Number", "True", "False", "StringLiteral", "Identifier"} ->
         ParseLiteral(CurrentTok(tokens, pos), ConsumeTok(tokens, pos))
    [] CurrentTok(tokens, pos).tok_name = "Fn" ->
         Then(ParseFunctionRest(tokens, ConsumeTok(tokens, pos), CurrentTok(tokens, pos).span), LAMBDA rest :
           POk(FnExpr(rest.node[1], rest.node[2], rest.node[3]), rest.span, rest.pos))
    [] CurrentTok(tokens, pos).tok_name = "LSqu" ->
         Then(ParseClosedExpressions(tokens, ConsumeTok(tokens, pos), CurrentTok(tokens, pos).span, "RSqu"),
              LAMBDA elements : POk(ArrLit(elements.node), elements.span, elements.pos))
    [] CurrentTok(tokens, pos).tok_name = "LPar" ->
         Then(ParseBinaryExpression(tokens, ConsumeTok(tokens, pos), 0), LAMBDA expr :
         Then(ExpectTok(tokens, expr.pos, "RPar"), LAMBDA rpar :
           POk(expr.node, expr.span, rpar.pos)))
    [] OTHER -> UnexpectedToken(tokens, pos)

\* parse_unary_expression
ParseUnaryExpression(tokens, pos) ==
  IF CurrentTok(tokens, pos).tok_name \in {"MinusMinus", "PlusPlus", "Minus", "Not"}
  THEN Then(ParseUnaryExpression(tokens, ConsumeTok(tokens, pos)), LAMBDA operand :
         POk(Un(CurrentTok(tokens, pos).lexeme, operand.node, FALSE),
             Merge(CurrentTok(tokens, pos).span, operand.span), operand.pos))
  ELSE ParsePrimary(tokens, pos)

\* the loop of parse_postfix_expression; `expr` is the result parsed so far
PostfixLoop(tokens, expr) ==
  CASE CurrentTok(tokens, expr.pos).tok_name \in {"PlusPlus", "MinusMinus"} ->
         PostfixLoop(tokens, POk(Un(CurrentTok(tokens, expr.pos).lexeme, expr.node, TRUE),
                                 Merge(expr.span, CurrentTok(tokens, expr.pos).span),
                                 ConsumeTok(tokens, expr.pos)))
    [] CurrentTok(tokens, expr.pos).tok_name = "LSqu" ->
         Then(ParseBinaryExpression(tokens, ConsumeTok(tokens, expr.pos), 0), LAMBDA index :
         Then(ExpectTok(tokens, index.pos, "RSqu"), LAMBDA close :
           PostfixLoop(tokens,
             POk(Access(expr.node, index.node),
                 Merge(Merge(Merge(expr.span, CurrentTok(tokens, expr.pos).span), index.span), close.span),
                 close.pos))))
    [] CurrentTok(tokens, expr.pos).tok_name = "LPar" ->
         Then(ParseClosedExpressions(tokens, ConsumeTok(tokens, expr.pos),
                                     Merge(expr.span, CurrentTok(tokens, expr.pos).span), "RPar"),
              LAMBDA arguments :
                PostfixLoop(tokens, POk(Call(expr.node, arguments.node), arguments.span, arguments.pos)))
    [] OTHER -> expr

\* parse_postfix_expression
ParsePostfixExpression(tokens, pos) ==
  Then(ParseUnaryExpression(tokens, pos), LAMBDA expr : PostfixLoop(tokens, expr))

\* the min_prec handed to the parse of an operator's right side
RightMinPrec(prec) == prec + 1

\* the loop of parse_binary_expression; `left` is the result parsed so far
BinaryLoop(tokens, left, min_prec) ==
  IF \/ GetPrecedence(CurrentTok(tokens, left.pos)) = NoPrecedence
     \/ GetPrecedence(CurrentTok(tokens, left.pos)) < min_prec
  THEN left
  ELSE Then(ParseBinaryExpression(tokens, ConsumeTok(tokens, left.pos),
                                  RightMinPrec(GetPrecedence(CurrentTok(tokens, left.pos)))),
            LAMBDA right :
              BinaryLoop(tokens,
                POk(Bin(left.node, CurrentTok(tokens, left.pos).lexeme, right.node),
                    Merge(Merge(left.span, CurrentTok(tokens, left.pos).span), right.span), right.pos),
                min_prec))

\* parse_binary_expression
ParseBinaryExpression(tokens, pos, min_prec) ==
  Then(ParsePostfixExpression(tokens, pos), LAMBDA left : BinaryLoop(tokens, left, min_prec))

\* parse_expression
ParseExpression(tokens, pos) == ParseBinaryExpression(tokens, pos, 0)

\* the loop of parse_body over the statements before `}`
BodyLoop(tokens, pos, span, statements) ==
  IF CurrentTok(tokens, pos).tok_name = "RBra" THEN POk(statements, span, pos)
  ELSE Then(ParseStatement(tokens, pos), LAMBDA statement :
         BodyLoop(tokens, statement.pos, Merge(span, statement.span), Append(statements, statement.node)))

\* parse_body
ParseBody(tokens, pos) ==
  Then(ExpectTok(tokens, pos, "LBra"), LAMBDA lbra :
  Then(BodyLoop(tokens, lbra.pos, lbra.span, << >>), LAMBDA statements :
  Then(ExpectTok(tokens, statements.pos, "RBra"), LAMBDA rbra :
    POk(Body(statements.node), Merge(statements.span, rbra.span), rbra.pos))))

\* the `;` that ends a statement whose node and span so far are given
ExpectSemicolon(tokens, pos, node, span) ==
  Then(ExpectTok(tokens, pos, "Semicolon"), LAMBDA semicolon :
    POk(node, Merge(span, semicolon.span), semicolon.pos))

\* parse_print_statement
ParsePrintStatement(tokens, pos) ==
  Then(ParseExpressions(tokens, ConsumeTok(tokens, pos), CurrentTok(tokens, pos).span, << >>, "Semicolon"),
       LAMBDA expressions :
         ExpectSemicolon(tokens, expressions.pos, PrintNode(expressions.node), expressions.span))

\* parse_while
ParseWhile(tokens, pos) ==
  Then(ParseBinaryExpression(tokens, ConsumeTok(tokens, pos), 0), LAMBDA guard :
  Then(ParseBody(tokens, guard.pos), LAMBDA body :
    POk(While(guard.node, body.node),
        Merge(Merge(CurrentTok(tokens, pos).span, guard.span), body.span), body.pos)))

\* parse_if's else part, after the then body; `span` covers `if guard then_body`
ParseElse(tokens, guard, then_body, span) ==
  IF CurrentTok(tokens, then_body.pos).tok_name = "Else"
  THEN Then(ParseBody(tokens, ConsumeTok(tokens, then_body.pos)), LAMBDA parsed_else :
         POk(If(guard.node, then_body.node, parsed_else.node),
             Merge(Merge(span, CurrentTok(tokens, then_body.pos).span), parsed_else.span),
             parsed_else.pos))
  ELSE POk(If(guard.node, then_body.node, NoNode), span, then_body.pos)

\* parse_if
ParseIf(tokens, pos) ==
  Then(ParseBinaryExpression(tokens, ConsumeTok(tokens, pos), 0), LAMBDA guard :
  Then(ParseBody(tokens, guard.pos), LAMBDA then_body :
    ParseElse(tokens, guard, then_body,
              Merge(Merge(CurrentTok(tokens, pos).span, guard.span), then_body.span))))

\* parse_break
ParseBreak(tokens, pos) ==
  ExpectSemicolon(tokens, ConsumeTok(tokens, pos), Break, CurrentTok(tokens, pos).span)

\* parse_return
ParseReturn(tokens, pos) ==
  Then(IF CurrentTok(tokens, ConsumeTok(tokens, pos)).tok_name # "Semicolon"
       THEN ParseBinaryExpression(tokens, ConsumeTok(tokens, pos), 0)
       ELSE POk(UnitLit, CurrentTok(tokens, pos).span, ConsumeTok(tokens, pos)), LAMBDA expr :
    ExpectSemicolon(tokens, expr.pos, Return(expr.node), Merge(CurrentTok(tokens, pos).span, expr.span)))

\* parse_function_declaration
ParseFunctionDeclaration(tokens, pos) ==
  Then(ExpectTok(tokens, ConsumeTok(tokens, pos), "Identifier"), LAMBDA fn_name :
  Then(ParseFunctionRest(tokens, fn_name.pos, Merge(CurrentTok(tokens, pos).span, fn_name.span)), LAMBDA rest :
    POk(FnDecl(fn_name.node.lexeme, rest.node[1], rest.node[2], rest.node[3]), rest.span, rest.pos)))

\* parse_let_statement's optional `: type`; the result's span covers `let id [: type]`
ParseAnnotation(tokens, let_tok, id_tok) ==
  IF CurrentTok(tokens, id_tok.pos).tok_name = "Colon"
  THEN Then(ParseType(tokens, ConsumeTok(tokens, id_tok.pos)), LAMBDA ty :
         POk(ty.node,
             Merge(Merge(Merge(let_tok.span, id_tok.span), CurrentTok(tokens, id_tok.pos).span), ty.span),
             ty.pos))
  ELSE POk(TyNone, Merge(let_tok.span, id_tok.span), id_tok.pos)

\* parse_let_statement
ParseLetStatement(tokens, pos) ==
  Then(ExpectTok(tokens, ConsumeTok(tokens, pos), "Identifier"), LAMBDA id_tok :
  Then(ParseAnnotation(tokens, CurrentTok(tokens, pos), id_tok), LAMBDA var_type :
  Then(ExpectTok(tokens, var_type.pos, "Assign"), LAMBDA assign_tok :
  Then(ParseBinaryExpression(tokens, assign_tok.pos, 0), LAMBDA expr :
    ExpectSemicolon(tokens, expr.pos, Let(id_tok.node.lexeme, var_type.node, expr.node),
                    Merge(Merge(var_type.span, assign_tok.span), expr.span))))))

\* parse_expression_statement
ParseExpressionStatement(tokens, pos) ==
  Then(ParseBinaryExpression(tokens, pos, 0), LAMBDA expr :
    ExpectSemicolon(tokens, expr.pos, ExprStmt(expr.node), expr.span))

\* parse_statement
ParseStatement(tokens, pos) ==
  CASE CurrentTok(tokens, pos).tok_name = "Print" -> ParsePrintStatement(tokens, pos)
    [] CurrentTok(tokens, pos).tok_name = "Let" -> ParseLetStatement(tokens, pos)
    [] CurrentTok(tokens, pos).tok_name = "Fn" -> ParseFunctionDeclaration(tokens, pos)
    [] CurrentTok(tokens, pos).tok_name = "If" -> ParseIf(tokens, pos)
    [] CurrentTok(tokens, pos).tok_name = "While" -> ParseWhile(tokens, pos)
    [] CurrentTok(tokens, pos).tok_name = "Return" -> ParseReturn(tokens, pos)
    [] CurrentTok(tokens, pos).tok_name = "Break" -> ParseBreak(tokens, pos)
    [] CurrentTok(tokens, pos).tok_name = "LBra" -> ParseBody(tokens, pos)
    [] OTHER -> ParseExpressionStatement(tokens, pos)

(* ----------------------------- programs ------------------------------- *)

\* the digits of a literal n >= 0, as the lexer's [0-9]+ lexeme holds them
RECURSIVE Digits(_)
Digits(n) == IF n < 10 THEN <<n>> ELSE Append(Digits(n \div 10), n % 10)

Num(n) == NumLit(Digits(n))
True == BoolLit("true")
False == BoolLit("false")

\* main.rs interpreter_closure_clones_share_state, with `calls` calls that
\* alternate between the two aliases
TickerAlias(k) == IF k % 2 = 1 THEN "ticker" ELSE "twin"

ClosureProgram(start, ncalls) ==
  << Let("make_tick", TyNone,
         FnExpr(<<Param("start", TInt)>>, TFunction(<< >>, TInt),
                Body(<< Let("value", TInt, Id("start")),
                        Return(FnExpr(<< >>, TInt,
                                      Body(<< ExprStmt(Un("++", Id("value"), FALSE)),
                                              Return(Id("value")) >>))) >>))),
     Let("ticker", TyNone, Call(Id("make_tick"), <<Num(start)>>)),
     Let("twin", TyNone, Id("ticker")) >>
  \o [k \in 1..ncalls |-> ExprStmt(Call(Id(TickerAlias(k)), << >>))]

\* main.rs interpreter_executes_recursive_function
FactorialBody ==
  Body(<< If(Bin(Id("n"), "<=", Num(1)), Body(<<Return(Num(1))>>), NoNode),
          Return(Bin(Id("n"), "*", Call(Id("factorial"), <<Bin(Id("n"), "-", Num(1))>>))) >>)

FactorialProgram(n, as_let) ==
  << IF as_let THEN Let("factorial", TyNone, FnExpr(<<Param("n", TInt)>>, TInt, FactorialBody))
     ELSE FnDecl("factorial", <<Param("n", TInt)>>, TInt, FactorialBody),
     ExprStmt(Call(Id("factorial"), <<Num(n)>>)) >>

ClosurePrograms == {ClosureProgram(7, MaxCalls)}

FactorialPrograms == {FactorialProgram(n, l) : n \in 0..MaxFact, l \in BOOLEAN}

\* `let x = 1;` then one expression statement over operands of every type
Operands ==
  { Num(2), True, StrLit("a"), UnitLit, ArrLit(<<Num(1)>>), FnExpr(<< >>, TUnit, Body(<< >>)), Id("x"),
    Bin(Id("x"), "+", Num(1)), Access(ArrLit(<<Num(1)>>), Num(0)) }

BinaryOperators == {"=", "+", "-", "*", "/", "%", "==", "!=", "<", "<=", ">", ">=", "&&", "||"}

UnaryOperators == {"-", "!", "++", "--"}

OperandStatements ==
  {ExprStmt(Bin(l, op, r)) : l \in Operands, op \in BinaryOperators, r \in Operands}
  \cup {ExprStmt(Un(op, e, FALSE)) : op \in UnaryOperators, e \in Operands}
  \cup {ExprStmt(Un(op, e, TRUE)) : op \in {"++", "--"}, e \in Operands}
  \cup {While(e, Body(<<Break>>)) : e \in Operands}
  \cup {ExprStmt(Call(e, << >>)) : e \in Operands}
  \cup {ExprStmt(Access(e, Num(0))) : e \in Operands}
  \cup {Let("y", ty, e) : ty \in {TInt, TBool, TArray(TInt), TFunction(<< >>, TUnit)}, e \in Operands}

OperandPrograms == {<<Let("x", TyNone, Num(1)), st>> : st \in OperandStatements}

\* main.rs typechecker_accepts_matrix_manipulation / interpreter_manages_matrices...
MatrixLiteral == ArrLit(<<ArrLit(<<Num(1), Num(2)>>), ArrLit(<<Num(3), Num(4)>>)>>)
MatrixValue == VArray(<<VArray(<<VInt(1), VInt(2)>>), VArray(<<VInt(3), VInt(4)>>)>>)

\* an index expression for i >= -1: `-1` is the unary minus of the literal 1
Idx(i) == IF i < 0 THEN Un("-", Num(-i), FALSE) ELSE Num(i)

\* `let m = [[1, 2], [3, 4]]; m[i][j] = x;`
MatrixAssignProgram(i, j, x) ==
  << Let("m", TyNone, MatrixLiteral),
     ExprStmt(Bin(Access(Access(Id("m"), Idx(i)), Idx(j)), "=", Num(x))) >>

MatrixAssignPrograms == {MatrixAssignProgram(i, j, 7) : i \in -1..(1 + MaxOver), j \in -1..(1 + MaxOver)}

\* `let v: array(T) = [...]`: a literal whose elements all have type T
ArrayLetCases ==
  { [ty |-> TInt, lit |-> ArrLit(<<Num(1), Num(2)>>)],
    [ty |-> TBool, lit |-> ArrLit(<<True>>)],
    [ty |-> TString, lit |-> ArrLit(<<StrLit("a"), StrLit("b")>>)],
    [ty |-> TArray(TInt), lit |-> MatrixLiteral],
    [ty |-> TArray(TBool), lit |-> ArrLit(<<ArrLit(<<True>>)>>)] }

ArrayLetProgram(c) == << Let("v", TArray(c.ty), c.lit) >>

\* the same declarations with an element of another type, and the empty literal
ArrayLetOthers ==
  { << Let("v", TArray(TInt), ArrLit(<<Num(1), True>>)) >>,
    << Let("v", TArray(TInt), ArrLit(<<True>>)) >>,
    << Let("v", TArray(TInt), ArrLit(<< >>)) >>,
    << Let("v", TyNone, MatrixLiteral) >> }

ArrayLetPrograms == {ArrayLetProgram(c) : c \in ArrayLetCases} \cup ArrayLetOthers

\* Function bodies for the return-path analysis: every statement is well typed
\* in a function returning Int.
ReturnOne == Return(Num(1))
NoReturn == ExprStmt(Num(0))
InnerReturn == Let("h", TyNone, FnExpr(<< >>, TInt, Body(<<ReturnOne>>)))
Leaves == {ReturnOne, NoReturn, InnerReturn}
Blocks(stmts) == {Body(<<st>>) : st \in stmts}

Statements1 ==
  Leaves
  \cup {If(True, th, NoNode) : th \in Blocks(Leaves)}
  \cup {If(True, th, el) : th \in Blocks(Leaves), el \in Blocks(Leaves)}
  \cup {While(True, b) : b \in Blocks(Leaves)}
  \cup Blocks(Leaves)

Statements2 ==
  {If(True, th, NoNode) : th \in Blocks(Statements1)}
  \cup {If(True, th, el) : th \in Blocks(Statements1), el \in Blocks(Statements1)}
  \cup {While(True, b) : b \in Blocks(Statements1)}
  \cup Blocks(Statements1)

RECURSIVE SeqsUpTo(_, _)
SeqsUpTo(S, n) ==
  IF n = 0 THEN {<< >>}
  ELSE LET shorter == SeqsUpTo(S, n - 1)
       IN shorter \cup {Append(q, x) : q \in {r \in shorter : Len(r) = n - 1}, x \in S}

FunctionBodies == {Body(q) : q \in SeqsUpTo(Statements1, MaxStmts)} \cup Blocks(Statements2)

\* the three forms a function takes: `fn path() -> int {..}`, `let path = fn-expr;`
\* and a function expression in expression position
FunctionForms == {"fn", "let", "expr"}

FunctionProgram(form, return_type, body) ==
  CASE form = "fn" -> << FnDecl("path", << >>, return_type, body) >>
    [] form = "let" -> << Let("path", TyNone, FnExpr(<< >>, return_type, body)) >>
    [] form = "expr" -> << ExprStmt(FnExpr(<< >>, return_type, body)) >>

ReturnPathPrograms ==
  {FunctionProgram("fn", TInt, b) : b \in FunctionBodies}
  \cup {FunctionProgram(f, TInt, b) : f \in {"let", "expr"}, b \in Blocks(Statements1) \cup {Body(<< >>)}}
  \cup {FunctionProgram(f, TUnit, Body(<<NoReturn>>)) : f \in FunctionForms}

\* `let x = 1; let a = [1, 2]; fn f(p: int) -> R {..}` and one call site.
\* Each body ends in another outcome after it has created, rebound or
\* incremented a binding of its frame.
ValueBody ==
  [ret |-> TUnit, body |-> Body(<< ExprStmt(Bin(Id("x"), "=", Num(5))), Let("z", TyNone, Num(9)) >>)]
ReturnBody ==
  [ret |-> TInt, body |-> Body(<< Let("z", TyNone, Num(9)), ExprStmt(Un("++", Id("x"), TRUE)),
                                  Return(Bin(Id("z"), "+", Id("p"))) >>)]
BreakBody ==
  [ret |-> TUnit, body |-> Body(<< ExprStmt(Un("++", Id("x"), TRUE)), Break >>)]
ErrorBody ==
  [ret |-> TUnit, body |-> Body(<< ExprStmt(Bin(Id("p"), "=", Num(3))), ExprStmt(Bin(Num(1), "/", Num(0))) >>)]
LoopReturnBody ==
  [ret |-> TInt, body |-> Body(<< While(True, Body(<< ExprStmt(Un("--", Id("x"), FALSE)), Return(Id("x")) >>)),
                                  Return(Num(0)) >>)]
LoopBreakBody ==
  [ret |-> TUnit, body |-> Body(<< While(True, Body(<< ExprStmt(Un("++", Access(Id("a"), Num(0)), TRUE)),
                                                       Break >>)) >>)]
GuardedBreakBody ==
  [ret |-> TInt, body |-> Body(<< If(Bin(Id("p"), ">", Num(0)), Body(<<Break>>), NoNode), Return(Num(1)) >>)]

CallBodies ==
  {ValueBody, ReturnBody, BreakBody, ErrorBody, LoopReturnBody, LoopBreakBody, GuardedBreakBody}

CallSites == {"top", "arg", "while", "nested", "let"}

CallSite(site) ==
  CASE site = "top" -> << ExprStmt(Call(Id("f"), <<Num(4)>>)) >>
    [] site = "arg" -> << ExprStmt(Call(Id("f"), <<Un("++", Id("x"), TRUE)>>)) >>
    [] site = "while" ->
         << While(Bin(Id("x"), "<", Num(3)),
                  Body(<< ExprStmt(Un("++", Id("x"), TRUE)), ExprStmt(Call(Id("f"), <<Id("x")>>)) >>)) >>
    [] site = "nested" ->
         << FnDecl("g", <<Param("q", TInt)>>, TUnit,
                   Body(<< Let("w", TyNone, Num(1)), ExprStmt(Call(Id("f"), <<Id("q")>>)),
                           ExprStmt(Un("++", Id("w"), TRUE)) >>)),
            ExprStmt(Call(Id("g"), <<Num(2)>>)) >>
    [] site = "let" -> << Let("r", TyNone, Call(Id("f"), <<Num(4)>>)) >>

CallPrelude(c) ==
  << Let("x", TyNone, Num(1)), Let("a", TyNone, ArrLit(<<Num(1), Num(2)>>)),
     FnDecl("f", <<Param("p", TInt)>>, c.ret, c.body) >>

CallProgram(c, site) == CallPrelude(c) \o CallSite(site)

CallPrograms == {CallProgram(c, site) : c \in CallBodies, site \in CallSites}

\* `let a = [1, 2]; let m = [[1, 2], [3, 4]];` and one indexing statement
IndexOps == {"read", "assign", "post++", "post--", "pre++", "pre--", "read2", "inc2", "dec2"}

IndexPrelude == << Let("a", TyNone, ArrLit(<<Num(1), Num(2)>>)), Let("m", TyNone, MatrixLiteral) >>

IndexStatement(op, i) ==
  CASE op = "read" -> ExprStmt(Access(Id("a"), Idx(i)))
    [] op = "assign" -> ExprStmt(Bin(Access(Id("a"), Idx(i)), "=", Num(9)))
    [] op = "post++" -> ExprStmt(Un("++", Access(Id("a"), Idx(i)), TRUE))
    [] op = "post--" -> ExprStmt(Un("--", Access(Id("a"), Idx(i)), TRUE))
    [] op = "pre++" -> ExprStmt(Un("++", Access(Id("a"), Idx(i)), FALSE))
    [] op = "pre--" -> ExprStmt(Un("--", Access(Id("a"), Idx(i)), FALSE))
    [] op = "read2" -> ExprStmt(Access(Access(Id("m"), Num(1)), Idx(i)))
    [] op = "inc2" -> ExprStmt(Un("++", Access(Access(Id("m"), Num(1)), Idx(i)), TRUE))
    [] op = "dec2" -> ExprStmt(Un("--", Access(Access(Id("m"), Idx(i)), Num(0)), FALSE))

IndexProgram(op, i) == Append(IndexPrelude, IndexStatement(op, i))

Indices == -1..(1 + MaxOver)

IndexPrograms == {IndexProgram(op, i) : op \in IndexOps, i \in Indices}

\* `let x = 5; let b = true; let s = "a"; let a = [1, 2]; let m = [[1, 2], [3, 4]];
\*  let c = [[[6]]];` and one ++/-- statement
IncrementPrelude ==
  << Let("x", TyNone, Num(5)), Let("b", TyNone, True), Let("s", TyNone, StrLit("a")),
     Let("a", TyNone, ArrLit(<<Num(1), Num(2)>>)), Let("m", TyNone, MatrixLiteral),
     Let("c", TyNone, ArrLit(<<ArrLit(<<ArrLit(<<Num(6)>>)>>)>>)) >>

IncrementProgram(operand, operator, is_postfix) ==
  Append(IncrementPrelude, ExprStmt(Un(operator, operand, is_postfix)))

\* operands holding an Int, and where: the root identifier and the index path
IntTargets ==
  { [node |-> Id("x"), name |-> "x", path |-> << >>, n |-> 5],
    [node |-> Access(Id("a"), Num(0)), name |-> "a", path |-> <<0>>, n |-> 1],
    [node |-> Access(Id("a"), Num(1)), name |-> "a", path |-> <<1>>, n |-> 2],
    [node |-> Access(Access(Id("m"), Num(0)), Num(1)), name |-> "m", path |-> <<0, 1>>, n |-> 2],
    [node |-> Access(Access(Id("m"), Num(1)), Num(0)), name |-> "m", path |-> <<1, 0>>, n |-> 3],
    [node |-> Access(Access(Access(Id("c"), Num(0)), Num(0)), Num(0)), name |-> "c", path |-> <<0, 0, 0>>, n |-> 6] }

\* operands holding another value, and operands that are no identifier-rooted chain
OtherOperands ==
  { Id("b"), Id("s"), Id("a"), Access(Id("m"), Num(0)), Access(Access(Id("c"), Num(0)), Num(0)),
    Num(5), Bin(Id("x"), "+", Num(1)), UnitLit, Access(ArrLit(<<Num(1)>>), Num(0)),
    Un("-", Id("x"), FALSE) }

IncrementPrograms ==
  {IncrementProgram(e, op, post) :
     e \in {t.node : t \in IntTargets} \cup OtherOperands, op \in {"++", "--"}, post \in BOOLEAN}

\* `let g = 0; let n = 0; while g++ < limit { if n == leave_at { <exit>; } n++; } let after = 1;`
\* g counts the evaluations of the guard, n the bodies that ran to their end
CountingGuard(limit) == Bin(Un("++", Id("g"), TRUE), "<", Num(limit))
CountingBody(leave_at, exit) ==
  Body(<< If(Bin(Id("n"), "==", Num(leave_at)), Body(<<exit>>), NoNode), ExprStmt(Un("++", Id("n"), TRUE)) >>)
WhileProgram(guard, leave_at, exit) ==
  << Let("g", TyNone, Num(0)), Let("n", TyNone, Num(0)),
     While(guard, CountingBody(leave_at, exit)),
     Let("after", TyNone, Num(1)) >>
ReturnSeven == Return(Num(7))
WhileExits == {Break, ReturnSeven}
WhilePrograms ==
  { WhileProgram(CountingGuard(limit), leave_at, exit) :
      limit \in 0..MaxLimit, leave_at \in 0..MaxLimit, exit \in WhileExits }
  \cup { WhileProgram(Num(1), 0, Break) }

\* a statement that declares `v` inside the body of an if, an else or a while
BlockKinds == {"if", "else", "while"}
BlockLet(block) ==
  CASE block = "if" -> If(True, Body(<<Let("v", TyNone, Num(1))>>), NoNode)
    [] block = "else" -> If(False, Body(<< >>), Body(<<Let("v", TyNone, Num(1))>>))
    [] block = "while" -> While(False, Body(<<Let("v", TyNone, Num(1))>>))
\* `<block declaring v> v;` at top level, and inside `fn f() -> int { ... return v; }`
TopLevelBlockProgram(block) == << BlockLet(block), ExprStmt(Id("v")) >>
FunctionBlockProgram(block) ==
  << FnDecl("f", << >>, TInt, Body(<<BlockLet(block), Return(Id("v"))>>)), ExprStmt(Id("v")) >>
\* `fn f(p: int) -> int { let q = 1; return p; } <name>;`
OneParameter == <<[pname |-> "p", ptype |-> TInt]>>
LeakProgram(name) ==
  << FnDecl("f", OneParameter, TInt, Body(<<Let("q", TyNone, Num(1)), Return(Id("p"))>>)), ExprStmt(Id(name)) >>
\* `let o = 1; fn f(p: int) -> int { let q = 2; fn h() -> int { return (o + p) + (q + (f(1) + h())); } return q; }`
EnclosingProgram ==
  << Let("o", TyNone, Num(1)),
     FnDecl("f", OneParameter, TInt,
            Body(<< Let("q", TyNone, Num(2)),
                    FnDecl("h", << >>, TInt,
                           Body(<<Return(Bin(Bin(Id("o"), "+", Id("p")), "+",
                                             Bin(Id("q"), "+", Bin(Call(Id("f"), <<Num(1)>>), "+", Call(Id("h"), << >>)))))>>)),
                    Return(Id("q")) >>)) >>
ScopePrograms ==
  {TopLevelBlockProgram(block) : block \in BlockKinds} \cup {FunctionBlockProgram(block) : block \in BlockKinds}
  \cup {LeakProgram(name) : name \in {"p", "q", "f"}} \cup {EnclosingProgram}

\* statements that guarantee a return, and statements put after them: a use of
\* an undeclared name, an ill-typed sum, a return of the wrong type, a let
Returning == {ReturnOne, If(True, Body(<<ReturnOne>>), Body(<<ReturnOne>>))}
Unchecked ==
  { ExprStmt(Id("z")), ExprStmt(Bin(True, "+", Num(1))), Return(True), Let("d", TyNone, Num(1)) }
\* `fn f() -> int { <st1>; <st2>; }`
TwoStatementFunction(st1, st2) == << FnDecl("f", << >>, TInt, Body(<<st1, st2>>)) >>
\* `if true { <returning>; let d = 1; } d;`
DeadLetProgram(returning) ==
  << If(True, Body(<<returning, Let("d", TyNone, Num(1))>>), NoNode), ExprStmt(Id("d")) >>
DeadCodePrograms ==
  {TwoStatementFunction(returning, dead) : returning \in Returning, dead \in Unchecked}
  \cup {TwoStatementFunction(dead, returning) : returning \in Returning, dead \in Unchecked}
  \cup {DeadLetProgram(returning) : returning \in Returning}

\* `f` declared by `fn f() -> int <body>` or by `let f = fn () -> int <body>;`
DefineF(as_let, body) ==
  IF as_let THEN Let("f", TyNone, FnExpr(<< >>, TInt, body)) ELSE FnDecl("f", << >>, TInt, body)

\* what the defining frame does to `x` after f is defined: `x = 5;`, `x++;`,
\* `let x = 9;`, and `let w = 3;`
FrameChanges ==
  { ExprStmt(Bin(Id("x"), "=", Num(5))), ExprStmt(Un("++", Id("x"), TRUE)),
    Let("x", TyNone, Num(9)), Let("w", TyNone, Num(3)) }
\* `let x = 1; <f defined with body { return x; }> <change>; f();`
SnapshotProgram(as_let, change) ==
  << Let("x", TyNone, Num(1)), DefineF(as_let, Body(<<Return(Id("x"))>>)), change, ExprStmt(Call(Id("f"), << >>)) >>

\* ways to bind `y` after f is defined: to an int, to a declared function, to a
\* function expression, to f itself
ReturnTwo == Body(<<Return(Num(2))>>)
LateBindings ==
  { Let("y", TyNone, Num(2)), FnDecl("y", << >>, TInt, ReturnTwo),
    Let("y", TyNone, FnExpr(<< >>, TInt, ReturnTwo)), Let("y", TyNone, Id("f")) }
\* `if false { let y = 0; } <f defined with body { y; return 1; }> <binding of y>; f();`
\* the if declares y for the type checker and binds nothing at run time
LateNameProgram(as_let, binding) ==
  << If(False, Body(<<Let("y", TyNone, Num(0))>>), NoNode),
     DefineF(as_let, Body(<<ExprStmt(Id("y")), ReturnOne>>)), binding, ExprStmt(Call(Id("f"), << >>)) >>

SnapshotPrograms ==
  {SnapshotProgram(as_let, change) : as_let \in BOOLEAN, change \in FrameChanges}
  \cup {LateNameProgram(as_let, binding) : as_let \in BOOLEAN, binding \in LateBindings}

\* `let a = [1, 2];`
OriginalArray == Let("a", TyNone, ArrLit(<<Num(1), Num(2)>>))
\* `<name>[0] = 9;`, `<name>[1]++;`, `--<name>[0];`
SlotChanges(name) ==
  { ExprStmt(Bin(Access(Id(name), Num(0)), "=", Num(9))),
    ExprStmt(Un("++", Access(Id(name), Num(1)), TRUE)),
    ExprStmt(Un("--", Access(Id(name), Num(0)), FALSE)) }
\* the ways an array gets to a second holder, and the name whose array is changed
CopyWays == {"let", "assign", "argument", "capture", "captured"}
ChangedName(way) ==
  CASE way \in {"let", "assign"} -> "b" [] way = "argument" -> "p" [] OTHER -> "a"
\* `let a = [1, 2];` then
\*   let:      `let b = a; <change of b>`
\*   assign:   `let b = [0]; b = a; <change of b>`
\*   argument: `fn f(p: [int]) -> int { <change of p> return p[0]; } f(a);`
\*   capture:  `fn g() -> int { <change of a> return a[0]; } g();`
\*   captured: `fn g() -> int { return a[0] + a[1]; } <change of a> g();`
CopyProgram(way, change) ==
  CASE way = "let" -> <<OriginalArray, Let("b", TyNone, Id("a")), change>>
    [] way = "assign" ->
         <<OriginalArray, Let("b", TyNone, ArrLit(<<Num(0)>>)), ExprStmt(Bin(Id("b"), "=", Id("a"))), change>>
    [] way = "argument" ->
         <<OriginalArray,
           FnDecl("f", <<Param("p", TArray(TInt))>>, TInt, Body(<<change, Return(Access(Id("p"), Num(0)))>>)),
           ExprStmt(Call(Id("f"), <<Id("a")>>))>>
    [] way = "capture" ->
         <<OriginalArray,
           FnDecl("g", << >>, TInt, Body(<<change, Return(Access(Id("a"), Num(0)))>>)),
           ExprStmt(Call(Id("g"), << >>))>>
    [] way = "captured" ->
         <<OriginalArray,
           FnDecl("g", << >>, TInt, Body(<<Return(Bin(Access(Id("a"), Num(0)), "+", Access(Id("a"), Num(1))))>>)),
           change,
           ExprStmt(Call(Id("g"), << >>))>>
CopyPrograms == { CopyProgram(way, change) : way \in CopyWays, change \in UNION { SlotChanges(ChangedName(w)) : w \in CopyWays } }

\* the targets of an assignment: `u` (never defined), `a[5]` (out of range),
\* `a[k++]`, `a[0]` and `r`
OrderTargets ==
  { Id("u"), Access(Id("a"), Num(5)), Access(Id("a"), Un("++", Id("k"), TRUE)), Access(Id("a"), Num(0)), Id("r") }
\* the right-hand sides: `r++` (leaves its trace in r), `7` and `k`
OrderValues == { Un("++", Id("r"), TRUE), Num(7), Id("k") }
\* where k starts
OrderStarts == {0, 1, 2}
\* `let a = [1, 2, 3]; let k = <k0>; let r = 0; <target> = <rhs>;`
OrderProgram(k0, target, rhs) ==
  << Let("a", TyNone, ArrLit(<<Num(1), Num(2), Num(3)>>)), Let("k", TyNone, Num(k0)), Let("r", TyNone, Num(0)),
     ExprStmt(Bin(target, "=", rhs)) >>
OrderPrograms == { OrderProgram(k0, target, rhs) : k0 \in OrderStarts, target \in OrderTargets, rhs \in OrderValues }

Programs ==
  OrderPrograms \cup CopyPrograms \cup SnapshotPrograms \cup DeadCodePrograms \cup ScopePrograms \cup WhilePrograms \cup ClosurePrograms \cup FactorialPrograms \cup OperandPrograms \cup MatrixAssignPrograms
  \cup ArrayLetPrograms \cup ReturnPathPrograms \cup CallPrograms \cup IndexPrograms
  \cup IncrementPrograms

(* ------------------------------ sources ------------------------------- *)

\* the operators of get_precedence's table, by lexeme
PrecedenceOperators == {"=", "*", "/", "%", "+", "-", ">", "<", ">=", "<=", "==", "!=", "&&", "||"}

\* `a op1 b op2 c;` with spaces around the operators
TwoOperatorSource(op1, op2) == Source(<<"a", " ", op1, " ", "b", " ", op2, " ", "c", ";">>)
TwoOperatorSources == {TwoOperatorSource(op1, op2) : op1, op2 \in PrecedenceOperators}

\* `let m = [[1,2],[3,4]];` and on the next line `++m[0][1];`
PrefixIncrementSource ==
  Source(<<"let", " ", "m", " ", "=", " ", "[", "[", "1", ",", "2", "]", ",", "[", "3", ",", "4", "]", "]", ";",
           "\n", "++", "m", "[", "0", "]", "[", "1", "]", ";">>)

\* `let f = <x: int> -> int { return x; };` and `let f = <> -> int { return 1; };`
ClosureSource(with_parameter) ==
  Source(<<"let", " ", "f", " ", "=", " ", "<">>
         \o (IF with_parameter THEN <<"x", ":", " ", "int">> ELSE << >>)
         \o <<">", " ", "->", " ", "int", " ", "{", " ", "return", " ">>
         \o (IF with_parameter THEN <<"x">> ELSE <<"1">>)
         \o <<";", " ", "}", ";">>)
ClosureSources == {ClosureSource(with_parameter) : with_parameter \in BOOLEAN}

\* `let f = fn (x: int) -> int { return x; }; f(1);`
FnExpressionSource ==
  Source(<<"let", " ", "f", " ", "=", " ", "fn", " ", "(", "x", ":", " ", "int", ")", " ", "->", " ", "int", " ",
           "{", " ", "return", " ", "x", ";", " ", "}", ";", "\n", "f", "(", "1", ")", ";">>)

\* `let xs: [int] = [1, true];`, and the same with the annotation `array(int)`
MixedArraySource(annotation) ==
  Source(<<"let", " ", "xs", ":", " ">> \o annotation \o <<" ", "=", " ", "[", "1", ",", " ", "true", "]", ";">>)
BracketAnnotation == <<"[", "int", "]">>
ArrayAnnotation == <<"array", "(", "int", ")">>
MixedArraySources == {MixedArraySource(BracketAnnotation), MixedArraySource(ArrayAnnotation)}

\* the keywords of the lexer's pattern list
KeywordWords ==
  { "print", "let", "fn", "alias", "int", "float", "string", "bool", "array", "return", "break", "if", "else",
    "while", "nothing", "true", "false" }

\* <<word, keyword, character>>: a keyword with an identifier character right after it
GluedWords ==
  {
    <<"printx", "print", "x">>, <<"print1", "print", "1">>, <<"print_", "print", "_">>,
    <<"letx", "let", "x">>, <<"let1", "let", "1">>, <<"let_", "let", "_">>,
    <<"fnx", "fn", "x">>, <<"fn1", "fn", "1">>, <<"fn_", "fn", "_">>,
    <<"aliasx", "alias", "x">>, <<"alias1", "alias", "1">>, <<"alias_", "alias", "_">>,
    <<"intx", "int", "x">>, <<"int1", "int", "1">>, <<"int_", "int", "_">>,
    <<"floatx", "float", "x">>, <<"float1", "float", "1">>, <<"float_", "float", "_">>,
    <<"stringx", "string", "x">>, <<"string1", "string", "1">>, <<"string_", "string", "_">>,
    <<"boolx", "bool", "x">>, <<"bool1", "bool", "1">>, <<"bool_", "bool", "_">>,
    <<"arrayx", "array", "x">>, <<"array1", "array", "1">>, <<"array_", "array", "_">>,
    <<"returnx", "return", "x">>, <<"return1", "return", "1">>, <<"return_", "return", "_">>,
    <<"breakx", "break", "x">>, <<"break1", "break", "1">>, <<"break_", "break", "_">>,
    <<"ifx", "if", "x">>, <<"if1", "if", "1">>, <<"if_", "if", "_">>,
    <<"elsex", "else", "x">>, <<"else1", "else", "1">>, <<"else_", "else", "_">>,
    <<"whilex", "while", "x">>, <<"while1", "while", "1">>, <<"while_", "while", "_">>,
    <<"nothingx", "nothing", "x">>, <<"nothing1", "nothing", "1">>, <<"nothing_", "nothing", "_">>,
    <<"truex", "true", "x">>, <<"true1", "true", "1">>, <<"true_", "true", "_">>,
    <<"falsex", "false", "x">>, <<"false1", "false", "1">>, <<"false_", "false", "_">>
  }
GluedSource(g) == Source(<<g[1]>>)
GluedSources == {GluedSource(g) : g \in GluedWords}

\* `while x;`: a keyword with a space after it
SpacedSource(keyword) == Source(<<keyword, " ", "x", ";">>)
SpacedSources == {SpacedSource(keyword) : keyword \in KeywordWords}

\* the operators of two characters, by lexeme, with their token names
TwoCharOperators ==
  { <<"==", "Eq">>, <<"!=", "NotEq">>, <<"<=", "Le">>, <<">=", "Ge">>, <<"->", "SlimArrow">>,
    <<"=>", "BoldArrow">>, <<"++", "PlusPlus">>, <<"--", "MinusMinus">>, <<"&&", "And">>, <<"||", "Or">> }

\* `x==y;` with no space around the operator
TwoCharSource(op) == Source(<<"x", op[1], "y", ";">>)
TwoCharSources == {TwoCharSource(op) : op \in TwoCharOperators}

\* `let x = 10;`
LetSource == Source(<<"let", " ", "x", " ", "=", " ", "10", ";">>)

\* sources with a character no pattern but the last one matches: a lone `&` or
\* `|`, a `$`, a string literal that is not closed on its line
UnknownSources ==
  { Source(<<"x", " ", "&", " ", "y", ";">>),
    Source(<<"x", " ", "|", "y", ";">>),
    Source(<<"let", " ", "x", " ", "=", " ", "$", ";">>),
    Source(<<"print", " ", "\"", "h", "i", ";", "\n", "\"", ";">>) }

\* sources of whitespace only
BlankSources == {<<" ">>, <<"\n", " ", "\t">>}

\* the declarations of `f` of the call sources: a function of two int parameters
\* returning bool, and an int
FunctionOfTwo ==
  <<"fn", " ", "f", "(", "a", ":", " ", "int", ",", " ", "b", ":", " ", "int", ")", " ", "->", " ", "bool", " ",
    "{", " ", "return", " ", "a", " ", "<", " ", "b", ";", " ", "}">>
NotAFunction == <<"let", " ", "f", " ", "=", " ", "1", ";">>
CallDeclarations == {FunctionOfTwo, NotAFunction}

\* argument lists: of the right count and types, of a wrong count (also with an
\* undeclared argument), of a wrong type in either place, with an undeclared
\* argument in a list of the right count
CallArguments ==
  { <<"1", ",", " ", "2">>, << >>, <<"1">>, <<"1", ",", " ", "2", ",", " ", "3">>, <<"z">>,
    <<"1", ",", " ", "true">>, <<"true", ",", " ", "z">>, <<"z", ",", " ", "2">> }

\* `<declaration of f>\nlet x = f(<arguments>);`
CallSource(declaration, arguments) ==
  Source(declaration \o <<"\n", "let", " ", "x", " ", "=", " ", "f", "(">> \o arguments \o <<")", ";">>)
CallSources == { CallSource(d, as) : d \in CallDeclarations, as \in CallArguments }

\* two function expressions compared where the frame holds `a` and `b`
AnonymousFunction ==
  <<"fn", " ", "(", ")", " ", "->", " ", "int", " ", "{", " ", "return", " ", "1", ";", " ", "}">>
\* `(a);` and `(a + b) * c;`
ParenthesizedSources ==
  { Source(<<"(", "a", ")", ";">>),
    Source(<<"(", "a", " ", "+", " ", "b", ")", " ", "*", " ", "c", ";">>) }

FunctionComparisonSource ==
  Source(<<"let", " ", "a", " ", "=", " ", "1", ";", "\n", "let", " ", "b", " ", "=", " ", "2", ";", "\n",
           "let", " ", "c", " ", "=", " ">>
         \o AnonymousFunction \o <<" ", "==", " ">> \o AnonymousFunction \o <<";">>)

Sources ==
  {LetSource} \cup UnknownSources \cup BlankSources \cup
  TwoOperatorSources \cup {PrefixIncrementSource, FnExpressionSource} \cup ClosureSources
    \cup MixedArraySources \cup GluedSources \cup SpacedSources \cup TwoCharSources
    \cup CallSources \cup {FunctionComparisonSource} \cup ParenthesizedSources

(* --------------------------- state machine ---------------------------- *)

\* no call of Span::merge on its own is under way
NoMerging == << >>

Entries == {"main", "eval_program"}

\* the pipeline's stages in main's order
StageOrder == <<"lex", "parse", "check", "eval">>

\* no FlavorError yet
NoFailure == [phase |-> "None", message |-> "", shown |-> << >>]
\* a FlavorError: its phase, its message with the formatted parts left as
\* written in the format string, and in `shown` what {:?} printed for each value
\* that holds a HashMap
FailureShowing(phase, message, shown) == [phase |-> phase, message |-> message, shown |-> shown]
Failure(phase, message) == FailureShowing(phase, message, << >>)

\* The orders a HashMap of these keys can be iterated in: the order follows the
\* keys' hashes under the RandomState of the map, which HashMap::new() draws
\* anew for every Interpreter.
Orderings(keys) ==
  { order \in [1..Cardinality(keys) -> keys] : \A i, j \in 1..Cardinality(keys) : i # j => order[i] # order[j] }

\* the names in the captured environments of the function values among `shown`
ShownNames(shown, heap_) ==
  UNION { DOMAIN heap_[shown[k].cell] : k \in { i \in DOMAIN shown : shown[i].tag = "Function" } }

\* derive(Debug) on a Function prints its env, a HashMap, entry by entry in the
\* map's iteration order; the model keeps the order of the keys
DebugText(v, heap_, order) ==
  IF v.tag = "Function" THEN SelectSeq(order, LAMBDA name : name \in DOMAIN heap_[v.cell]) ELSE << >>

\* what format!("{:?}") can print for the shown values; the maps of one
\* interpreter are clones of one another and share one RandomState
DebugTexts(shown, heap_) ==
  { [k \in DOMAIN shown |-> DebugText(shown[k], heap_, order)] : order \in Orderings(ShownNames(shown, heap_)) }

\* A shown function whose captured env holds a function holds itself or a
\* function that holds itself (a declared or let-bound function is inserted
\* into its own env): the derived Debug recursion does not end, and the process
\* dies of stack overflow before any FlavorError exists.
DebugOverflows(shown, heap_) ==
  \E k \in DOMAIN shown :
    /\ shown[k].tag = "Function"
    /\ \E name \in DOMAIN heap_[shown[k].cell] : heap_[shown[k].cell][name].tag = "Function"

\* A run of main on a source text starts in the lexer.
InitFromSource ==
  /\ source \in Sources
  /\ program = << >>
  /\ entry = "main"
  /\ stage = "lex"
  /\ started = <<"lex">>

\* A run on an already parsed program: main past parse_program with `nodes` the
\* program, or Interpreter::eval_program called on the nodes.
InitFromNodes ==
  /\ source = << >>
  /\ program \in Programs
  /\ entry \in Entries
  /\ stage = IF entry = "main" THEN "check" ELSE "eval"
  /\ started = <<stage>>

Init ==
  /\ InitFromSource \/ InitFromNodes
  /\ lexer = NewLexer
  /\ parser = 0
  /\ node_spans = << >>
  /\ failure = NoFailure
  /\ reported = << >>
  /\ exit_status = << >>
  /\ pc = 1
  /\ checker = NewTypeChecker
  /\ tc_error = ""
  /\ env = EmptyMap
  /\ heap = << >>
  /\ last = VUnit
  /\ outcome = "None"
  /\ rt_error = ""
  /\ printed = << >>
  /\ calls = << >>
  /\ merging = NoMerging
  /\ first = << >>

front == <<source, lexer, parser, node_spans>>
report == <<reported, exit_status>>
back == <<pc, checker, tc_error, env, heap, last, outcome, rt_error, printed, calls>>
\* what the pipeline leaves alone
aside == <<merging, first>>

\* lexe: one iteration of its loop.  After the Eof token lexe returns Ok(()) and
\* main hands lexer.tokens to Parser::new; an Err leaves the loop at once.
LexeStep ==
  /\ stage = "lex"
  /\ LET r == NextToken(lexer, source)
         done == r.ok /\ r.token.tok_name = "Eof"
     IN /\ lexer' = IF r.ok THEN [r.lexer EXCEPT !.tokens = Append(@, r.token)] ELSE r.lexer
        /\ failure' = IF r.ok THEN failure ELSE Failure("Lexing", r.msg)
        /\ stage' = IF ~r.ok THEN "failed" ELSE IF done THEN "parse" ELSE "lex"
        /\ started' = IF done THEN Append(started, "parse") ELSE started
  /\ UNCHANGED <<aside, source, parser, node_spans, program, entry, report, back>>

\* the span of a node of the program, with the positions of the parser before
\* and after the node: the tokens from + 1 .. to were consumed for it
ConsumedBy(span, from, to) == [span |-> span, from |-> from, to |-> to]

\* parse_program: one iteration of its loop
ParseProgramStep ==
  /\ stage = "parse"
  /\ CurrentTok(lexer.tokens, parser).tok_name # "Eof"
  /\ LET r == ParseStatement(lexer.tokens, parser)
     IN /\ parser' = r.pos
        /\ program' = IF r.ok THEN Append(program, r.node) ELSE program
        /\ node_spans' = IF r.ok THEN Append(node_spans, ConsumedBy(r.span, parser, r.pos)) ELSE node_spans
        /\ failure' = IF r.ok THEN failure ELSE Failure("Parsing", r.msg)
        /\ stage' = IF r.ok THEN "parse" ELSE "failed"
  /\ UNCHANGED <<aside, source, lexer, entry, started, report, back>>

\* parse_program returned Ok(nodes): main builds the type checker
ParseProgramDone ==
  /\ stage = "parse"
  /\ CurrentTok(lexer.tokens, parser).tok_name = "Eof"
  /\ stage' = "check"
  /\ started' = Append(started, "check")
  /\ UNCHANGED <<aside, front, program, entry, failure, report, back>>

\* check_program: one iteration of its loop; the first error is reported and ends the run
CheckStatement ==
  /\ stage = "check"
  /\ pc <= Len(program)
  /\ LET r == Check(program[pc], checker)
     IN /\ checker' = r.t
        /\ tc_error' = r.msg
        /\ failure' = IF r.ok THEN failure ELSE Failure("TypeChecking", r.msg)
        /\ stage' = IF r.ok THEN "check" ELSE "failed"
        /\ pc' = IF r.ok THEN pc + 1 ELSE pc
  /\ UNCHANGED <<aside, front, started, report, program, entry, env, heap, last, outcome, rt_error, printed, calls>>

\* A main that builds the interpreter whatever check_program returned.
CheckIgnored ==
  /\ \/ stage = "check" /\ pc > Len(program)
     \/ stage = "failed" /\ failure.phase = "TypeChecking" /\ exit_status = << >>
  /\ stage' = "eval"
  /\ started' = Append(started, "eval")
  /\ pc' = 1
  /\ UNCHANGED <<aside, front, failure, report, program, entry, checker, tc_error, env, heap, last, outcome, rt_error, printed, calls>>

\* check_program returned Ok(()): main builds the interpreter
CheckDone ==
  /\ stage = "check"
  /\ pc > Len(program)
  /\ stage' = "eval"
  /\ started' = Append(started, "eval")
  /\ pc' = 1
  /\ UNCHANGED <<aside, front, failure, report, program, entry, checker, tc_error, env, heap, last, outcome, rt_error, printed, calls>>

\* eval_program: one iteration of its loop
EvalStatement ==
  /\ stage = "eval"
  /\ pc <= Len(program)
  /\ LET r == Eval(program[pc], [env |-> env, heap |-> heap, printed |-> printed, calls |-> << >>, fuel |-> MaxFuel])
     IN /\ env' = r.s.env
        /\ heap' = r.s.heap
        /\ printed' = r.s.printed
        /\ calls' = r.s.calls
        /\ rt_error' = IF r.k = "Err" /\ DebugOverflows(r.shown, r.s.heap) THEN "" ELSE r.msg
        /\ failure' \in IF r.k = "Err" /\ ~DebugOverflows(r.shown, r.s.heap)
                        THEN { FailureShowing("Runtime", r.msg, text) : text \in DebugTexts(r.shown, r.s.heap) }
                        ELSE {failure}
        /\ last' = IF r.k \in {"Value", "Return"} THEN r.v ELSE last
        /\ outcome' = CASE r.k = "Value" -> outcome
                        [] r.k = "Err" /\ DebugOverflows(r.shown, r.s.heap) -> "Abort"
                        [] OTHER -> r.k
        /\ stage' = CASE r.k = "Value" -> "eval"
                      [] r.k = "Err" /\ DebugOverflows(r.shown, r.s.heap) -> "aborted"
                      [] r.k = "Err" -> "failed"
                      [] r.k = "Diverge" -> "diverged"
                      [] OTHER -> "done"
        /\ pc' = IF r.k = "Value" THEN pc + 1 ELSE pc
  /\ UNCHANGED <<aside, front, started, report, program, entry, checker, tc_error>>

\* eval_program's loop ended: Ok(EvalOutcome::Value(last_value))
EvalDone ==
  /\ stage = "eval"
  /\ pc > Len(program)
  /\ stage' = "done"
  /\ outcome' = "Value"
  /\ UNCHANGED <<aside, front, started, failure, report, program, entry, pc, checker, tc_error, env, heap, last, rt_error, printed, calls>>

\* report_and_exit: main renders the stage's error and the process exits with status 1
ReportAndExit ==
  /\ stage = "failed"
  /\ entry = "main"
  /\ exit_status = << >>
  /\ reported' = Append(reported, failure)
  /\ exit_status' = <<1>>
  /\ UNCHANGED <<aside, front, program, entry, stage, started, failure, back>>

Next ==
  \/ LexeStep
  \/ ParseProgramStep
  \/ ParseProgramDone
  \/ CheckStatement
  \/ CheckDone
  \/ EvalStatement
  \/ EvalDone
  \/ ReportAndExit

Spec == Init /\ [][Next]_vars

(* ------------------------- the pipeline run twice --------------------- *)

\* The token names the lists given to Parser::new on its own are made of, and
\* the lexeme each is spelled with.
ListedNames == {"Identifier", "Number", "LPar", "RPar", "LBra", "RBra", "Semicolon", "Comma", "Minus", "Print"}
Spelled(tok_name) ==
  CASE tok_name = "Identifier" -> "x"
    [] tok_name = "Number" -> "1"
    [] tok_name = "LPar" -> "("
    [] tok_name = "RPar" -> ")"
    [] tok_name = "LBra" -> "{"
    [] tok_name = "RBra" -> "}"
    [] tok_name = "Semicolon" -> ";"
    [] tok_name = "Comma" -> ","
    [] tok_name = "Minus" -> "-"
    [] tok_name = "Print" -> "print"
    [] OTHER -> ""

\* the tokens of these names, one column each, and the Eof token after them
TokensOf(names) ==
  [i \in 1..Len(names) + 1 |->
     IF i <= Len(names) THEN Token(names[i], Spelled(names[i]), Point(1, i))
     ELSE Token("Eof", "\\0", Point(1, i))]

\* the finite token lists whose last token is Eof and that hold no other Eof
TokenLists == { TokensOf(names) : names \in UNION { [1..n -> ListedNames] : n \in 0..MaxTokens } }

\* the token lists the lexer makes of the source texts
LexedSources == { Lexe(NewLexer, src).lexer.tokens : src \in { s \in Sources : Lexe(NewLexer, s).ok } }

\* Parser::new(tokens): the cursor is at the first token
ParseInit ==
  /\ lexer \in { [NewLexer EXCEPT !.tokens = tokens] : tokens \in TokenLists \cup LexedSources }
  /\ source = << >> /\ parser = 0 /\ node_spans = << >> /\ program = << >>
  /\ entry = "main" /\ stage = "parse" /\ started = <<"parse">>
  /\ failure = NoFailure /\ reported = << >> /\ exit_status = << >>
  /\ pc = 1 /\ checker = NewTypeChecker /\ tc_error = ""
  /\ env = EmptyMap /\ heap = << >> /\ last = VUnit /\ outcome = "None"
  /\ rt_error = "" /\ printed = << >> /\ calls = << >>
  /\ merging = NoMerging /\ first = << >>

\* parse_program on its own: its loop, and its return
ParseNext == ParseProgramStep \/ ParseProgramDone
ParseSpec == ParseInit /\ [][ParseNext]_vars

\* a run of main on a source text
TwiceInit == Init /\ started = <<"lex">>

\* the run is over: eval_program returned Ok, or the process has exited with
\* status 1 or died
RunOver == stage \in {"done", "aborted"} \/ exit_status = <<1>>

\* The same source is run again, with a freshly constructed Lexer, Parser,
\* TypeChecker and Interpreter; `first` keeps what the first run produced.
RunAgain ==
  /\ first = << >>
  /\ RunOver
  /\ first' = <<[tokens |-> lexer.tokens, nodes |-> program, outcome |-> outcome, value |-> last,
                 failure |-> failure, printed |-> printed]>>
  /\ lexer' = NewLexer /\ parser' = 0 /\ node_spans' = << >> /\ program' = << >>
  /\ stage' = "lex" /\ started' = <<"lex">>
  /\ failure' = NoFailure /\ reported' = << >> /\ exit_status' = << >>
  /\ pc' = 1 /\ checker' = NewTypeChecker /\ tc_error' = ""
  /\ env' = EmptyMap /\ heap' = << >> /\ last' = VUnit /\ outcome' = "None"
  /\ rt_error' = "" /\ printed' = << >> /\ calls' = << >>
  /\ UNCHANGED <<source, entry, merging>>

TwiceNext == Next \/ RunAgain

TwiceSpec == TwiceInit /\ [][TwiceNext]_vars

(* ------------------------- Span::merge on its own --------------------- *)

\* before <= in the order by line, then column
NotAfter(line, column, other_line, other_column) ==
  line < other_line \/ (line = other_line /\ column <= other_column)

\* the spans of the positions up to MaxLine, MaxColumn: the start is not after the end
Spans ==
  { NewSpan(sl, sc, el, ec) : sl \in 1..MaxLine, sc \in 1..MaxColumn, el \in 1..MaxLine, ec \in 1..MaxColumn }
    \ { sp \in [start_line : 1..MaxLine, start_column : 1..MaxColumn, end_line : 1..MaxLine, end_column : 1..MaxColumn] :
          ~NotAfter(sp.start_line, sp.start_column, sp.end_line, sp.end_column) }

\* three spans, nothing merged yet; the pipeline is not run
MergeInit ==
  /\ merging \in [self : Spans, other : Spans, third : Spans, merged : {<< >>}, chained : {<< >>}]
  /\ source = << >> /\ lexer = NewLexer /\ parser = 0 /\ node_spans = << >> /\ program = << >>
  /\ entry = "main" /\ stage = "merge" /\ started = << >>
  /\ failure = NoFailure /\ reported = << >> /\ exit_status = << >>
  /\ pc = 1 /\ checker = NewTypeChecker /\ tc_error = ""
  /\ env = EmptyMap /\ heap = << >> /\ last = VUnit /\ outcome = "None"
  /\ rt_error = "" /\ printed = << >> /\ calls = << >>
  /\ first = << >>

\* self.merge(other)
MergeCall ==
  /\ stage = "merge" /\ merging.merged = << >>
  /\ merging' = [merging EXCEPT !.merged = <<Merge(merging.self, merging.other)>>]
  /\ UNCHANGED <<first, front, program, entry, stage, started, failure, report, back>>

\* self.merge(other).merge(third)
MergeChained ==
  /\ stage = "merge" /\ merging.merged # << >> /\ merging.chained = << >>
  /\ merging' = [merging EXCEPT !.chained = <<Merge(merging.merged[1], merging.third)>>]
  /\ UNCHANGED <<first, front, program, entry, stage, started, failure, report, back>>

MergeNext == MergeCall \/ MergeChained

MergeSpec == MergeInit /\ [][MergeNext]_vars

(* ----------------------------- properties ----------------------------- *)

\* statement k of the program has been evaluated (with a value, a control-flow
\* outcome or a Runtime error)
Evaluated(k) ==
  \/ stage = "eval" /\ pc > k
  \/ stage = "done" /\ pc >= k
  \/ stage = "failed" /\ rt_error # "" /\ pc = k

\* the run ended in the type checker
Rejected == stage = "failed" /\ tc_error # ""

\* C1: two aliases of one closure share its captured environment: with `value`
\* starting at 7, the k-th call of ticker(); twin(); ticker(); ... returns 7 + k,
\* and the program runs without an error.
ClosureAliasesShareState ==
  program = ClosureProgram(7, MaxCalls) =>
    /\ stage # "failed"
    /\ \A k \in 1..MaxCalls : (stage \in {"eval", "done"} /\ pc = 3 + k + 1) => last = VInt(7 + k)

\* What the interpreter does for C1: after the last of the calls the result is
\* still 8, the value the first call returned.
ClosureCallsStartOver ==
  /\ program = ClosureProgram(7, MaxCalls)
  /\ stage = "done"
  /\ last = VInt(8)
  /\ \A i \in DOMAIN heap : Has(heap[i], "value") => heap[i]["value"] = VInt(7)

\* The Runtime diagnostics caused by the types or shapes of operands.
ShapeErrors ==
  { "Unsupported binary operation: {l:?} {op} {r:?}",
    "Unsupported unary operation: {operator} (postfix: {is_postfix}) on {other:?}",
    "Unsupported unary operation: {operator} (postfix: {is_postfix}) on {value:?}",
    "Operand must be an identifier or array access for increment/decrement",
    "Left side of assignment must be an identifier or array access",
    "Callee is not a function",
    "Invalid array access",
    "While guard must evaluate to a boolean",
    "Type mismatch: variable '{identifier}' declared as {:?} but value has runtime type {}" }

\* C2: type soundness: a program that check_program accepted never ends with a
\* Runtime diagnostic caused by operand types or shapes.
AcceptedProgramsHaveNoShapeError ==
  (entry = "main" /\ stage = "failed" /\ tc_error = "") => rt_error \notin ShapeErrors

\* What happens for C2: `"a" == "a"` passes the checker and fails at run time.
StringEqualityFailsAtRuntime ==
  /\ entry = "main"
  /\ program = << Let("x", TyNone, Num(1)), ExprStmt(Bin(StrLit("a"), "==", StrLit("a"))) >>
  /\ stage = "failed"
  /\ tc_error = ""
  /\ rt_error = "Unsupported binary operation: {l:?} {op} {r:?}"

\* C3: for in-range i, j the assignment `m[i][j] = x` succeeds, yields x, and
\* afterwards m[i][j] is x while every other slot and both lengths are unchanged.
ChainedAssignmentStoresSlot ==
  \A i \in 0..1, j \in 0..1 :
    (program = MatrixAssignProgram(i, j, 7) /\ ~Rejected /\ stage \in {"done", "failed"}) =>
      /\ stage = "done"
      /\ last = VInt(7)
      /\ env["m"] = [MatrixValue EXCEPT !.elems[i + 1].elems[j + 1] = VInt(7)]

\* What happens for C3: the assignment is refused and m is as it was.
ChainedAssignmentRefused ==
  /\ program = MatrixAssignProgram(0, 1, 7)
  /\ entry = "main"
  /\ stage = "failed"
  /\ rt_error = "Left side of assignment must be an identifier or array access"
  /\ env["m"] = MatrixValue

\* C4: `let v: array(T) = [e1, ..]` with every element of type T is accepted by
\* check_program, for every T, T = array(int) included.
TypedArrayLiteralAccepted ==
  \A c \in ArrayLetCases : (program = ArrayLetProgram(c) /\ entry = "main") => ~Rejected

\* What happens for C4: the matrix literal declared array(array(int)) is rejected.
MatrixLiteralRejected ==
  /\ program = ArrayLetProgram([ty |-> TArray(TInt), lit |-> MatrixLiteral])
  /\ entry = "main"
  /\ stage = "failed"
  /\ tc_error = "Array literal element type mismatch: expected {:?}, found {:?}"

\* The claim's own definition of a return-guaranteed statement.
RECURSIVE Guaranteed(_)
Guaranteed(n) ==
  CASE n.kind = "Return" -> TRUE
    [] n.kind = "Body" -> \E i \in DOMAIN n.nodes : Guaranteed(n.nodes[i])
    [] n.kind = "If" -> n.else_body.kind # "None" /\ Guaranteed(n.then_body) /\ Guaranteed(n.else_body)
    [] OTHER -> FALSE

\* the function a return-path program declares
DeclaredFunction(prog) ==
  CASE prog[1].kind = "FunctionDeclaration" -> prog[1]
    [] OTHER -> prog[1].expr

MissingReturnMessages ==
  { "Function '{name}' does not guarantee a return on all paths",
    "Function assigned to '{identifier}' does not guarantee a return on all paths",
    "Function expression does not guarantee a return on all paths" }

\* C5: a function with a non-Unit return type and a well-typed body is accepted
\* by the checker iff its body is return-guaranteed (Return: yes; Body: some
\* statement is; If: has an else and both branches are; While: never); when it
\* is not, the diagnostic says that the function does not guarantee a return.
ReturnPathGuarantee ==
  (program \in ReturnPathPrograms /\ entry = "main" /\ ~(stage = "check" /\ pc = 1)) =>
    LET f == DeclaredFunction(program)
    IN IF f.return_type = TUnit \/ Guaranteed(f.body) THEN ~Rejected
       ELSE Rejected /\ tc_error \in MissingReturnMessages

\* C5's case: `fn path() -> int { while true { return 1; } }` is rejected
WhileTrueReturnRejected ==
  /\ program = FunctionProgram("fn", TInt, Body(<<While(True, Body(<<ReturnOne>>))>>))
  /\ stage = "failed"
  /\ tc_error = "Function '{name}' does not guarantee a return on all paths"

\* C6: after a call, whatever its body produced, the interpreter's frame is the
\* caller's frame as it stood after the arguments were evaluated; at the top
\* level nothing of what `f` bound, rebound or incremented is visible.
CallLeavesCallerFrame ==
  /\ \A i \in DOMAIN calls : calls[i].post = calls[i].pre
  /\ \A c \in CallBodies :
       (program = CallProgram(c, "top") /\ Evaluated(4)) =>
         /\ DOMAIN env = {"x", "a", "f"}
         /\ env["x"] = VInt(1)
         /\ env["a"] = VArray(<<VInt(1), VInt(2)>>)

\* C6's case: a call whose body changed its own frame and then failed
FailedCallRestoredFrame ==
  /\ program = CallProgram(ErrorBody, "arg")
  /\ stage = "failed"
  /\ rt_error = "Division by zero"
  /\ Len(calls) = 1
  /\ calls[1].frame # calls[1].pre
  /\ calls[1].frame["p"] = VInt(3)
  /\ env = calls[1].pre
  /\ env["x"] = VInt(2)

\* C7: a call yields a value or a Runtime error, never Return or Break: Return(v)
\* and Value(v) of the body become Value(v), a Break leaving the body is the
\* error "Break outside of a loop", and a `while` of the caller around the call
\* is not ended by it as by a break.
CallResultIsValueOrError ==
  /\ \A i \in DOMAIN calls :
       /\ calls[i].result \in {"Value", "Err"}
       /\ calls[i].body \in {"Return", "Value"} =>
            calls[i].result = "Value" /\ calls[i].result_v = calls[i].body_v
       /\ calls[i].body = "Break" =>
            calls[i].result = "Err" /\ calls[i].msg = "Break outside of a loop"
  /\ (program = CallProgram(BreakBody, "while") /\ Evaluated(4)) =>
       stage = "failed" /\ rt_error = "Break outside of a loop"
  /\ (program \in CallPrograms /\ stage = "done") => outcome = "Value"

\* C7's case: the call in the caller's loop, its body ending in `break`
BreakInCalleeFailsLoop ==
  /\ program = CallProgram(BreakBody, "while")
  /\ stage = "failed"
  /\ rt_error = "Break outside of a loop"
  /\ Len(calls) = 1
  /\ calls[1].body = "Break"

RECURSIVE Factorial(_)
Factorial(n) == IF n <= 1 THEN 1 ELSE n * Factorial(n - 1)

\* C8: a function declared by `fn factorial` or by `let factorial = fn ..` calls
\* itself at every depth: factorial(n) evaluates to n! and no run ends in an
\* error (so never in "Undefined variable").
RecursiveSelfReference ==
  \A n \in 0..MaxFact, as_let \in BOOLEAN :
    program = FactorialProgram(n, as_let) =>
      /\ stage \notin {"failed", "diverged"}
      /\ rt_error = ""
      /\ Evaluated(2) => last = VInt(Factorial(n)) /\ Len(calls) = (IF n <= 1 THEN 1 ELSE n)

\* C8's case: factorial(MaxFact) through the let form
FactorialOfFive ==
  /\ program = FactorialProgram(5, TRUE)
  /\ stage = "done"
  /\ last = VInt(120)
  /\ Len(calls) = 5

OutOfBoundsMessages ==
  { "Index out of bounds",
    "Index {idx} out of bounds for array '{array_name}' of length {len}" }

\* C9: reading, assigning or incrementing/decrementing at an index below 0 or
\* at or past the length is a Runtime error ("Negative array index" below 0,
\* an "out of bounds" message past the end) and leaves the arrays as they were.
OutOfRangeIndexIsError ==
  \A op \in IndexOps, i \in Indices :
    (program = IndexProgram(op, i) /\ (i < 0 \/ i >= 2) /\ Evaluated(3)) =>
      /\ stage = "failed"
      /\ rt_error = (IF i < 0 THEN "Negative array index" ELSE rt_error)
      /\ i >= 2 => rt_error \in OutOfBoundsMessages
      /\ env["a"] = VArray(<<VInt(1), VInt(2)>>)
      /\ env["m"] = MatrixValue

\* C9's case: `a[2] = 9` on an array of length 2
AssignPastEndFails ==
  /\ program = IndexProgram("assign", 2)
  /\ stage = "failed"
  /\ rt_error = "Index out of bounds"
  /\ env["a"] = VArray(<<VInt(1), VInt(2)>>)

\* the frame the increment programs build before their last statement
IncrementPreludeEnv ==
  [ x |-> VInt(5), b |-> VBool(TRUE), s |-> VString("a"), a |-> VArray(<<VInt(1), VInt(2)>>),
    m |-> MatrixValue, c |-> VArray(<<VArray(<<VArray(<<VInt(6)>>)>>)>>) ]

\* `value` with `new` at the index path `path`, everything else as it is
RECURSIVE Store(_, _, _)
Store(value, path, new) ==
  IF path = << >> THEN new
  ELSE VArray([value.elems EXCEPT ![path[1] + 1] = Store(@, Tail(path), new)])

Delta(operator) == IF operator = "++" THEN 1 ELSE -1

Parsed == Len(started) >= 3 /\ started[3] = "check"

\* the front end ended the run with a diagnostic
FrontEndFailed == stage = "failed" /\ failure.phase \in {"Lexing", "Parsing"}

\* the binding powers of the operators, higher binding tighter
BindingPower(op) ==
  CASE op \in {"*", "/", "%"} -> 150
    [] op \in {"+", "-"} -> 120
    [] op \in {">", "<", ">=", "<="} -> 100
    [] op \in {"==", "!="} -> 80
    [] op = "&&" -> 50
    [] op = "||" -> 40
    [] op = "=" -> 10

\* C11: for operators op1, op2 with power(op1) > power(op2), `a op2 b op1 c`
\* parses as `a op2 (b op1 c)` and `a op1 b op2 c` as `(a op1 b) op2 c`.
GroupingFollowsBindingPower ==
  source \in TwoOperatorSources =>
  \A op1, op2 \in PrecedenceOperators :
    BindingPower(op1) > BindingPower(op2) =>
      /\ source = TwoOperatorSource(op2, op1) =>
           /\ ~FrontEndFailed
           /\ Parsed => program = <<ExprStmt(Bin(Id("a"), op2, Bin(Id("b"), op1, Id("c"))))>>
      /\ source = TwoOperatorSource(op1, op2) =>
           /\ ~FrontEndFailed
           /\ Parsed => program = <<ExprStmt(Bin(Bin(Id("a"), op1, Id("b")), op2, Id("c")))>>

\* C11's case: `a = b || c;` has been parsed as `a = (b || c)`
AssignmentOfDisjunction ==
  /\ source = TwoOperatorSource("=", "||")
  /\ Parsed
  /\ program = <<ExprStmt(Bin(Id("a"), "=", Bin(Id("b"), "||", Id("c"))))>>

\* `a = b = c;`
ChainedAssignmentSource == TwoOperatorSource("=", "=")

\* C12: `a = b = c` parses to BinaryExpression(a, "=", BinaryExpression(b, "=", c)).
AssignmentIsRightAssociative ==
  source = ChainedAssignmentSource =>
    /\ ~FrontEndFailed
    /\ Parsed => program = <<ExprStmt(Bin(Id("a"), "=", Bin(Id("b"), "=", Id("c"))))>>

\* C12's case: `a = b = c;` has been parsed, as `(a = b) = c`
AssignmentParsedLeftAssociative ==
  /\ source = ChainedAssignmentSource
  /\ Parsed
  /\ program = <<ExprStmt(Bin(Bin(Id("a"), "=", Id("b")), "=", Id("c")))>>

\* C13: in `let m = [[1, 2], [3, 4]]; ++m[0][1];` the prefix `++` applies to
\* the element: the statement parses to a prefix UnaryExpression over the
\* index chain m[0][1], type-checks, and evaluates to the new value 3.
PrefixIncrementAppliesToElement ==
  source = PrefixIncrementSource =>
    /\ stage # "failed"
    /\ Parsed => program[2] = ExprStmt(Un("++", Access(Access(Id("m"), Num(0)), Num(1)), FALSE))
    /\ stage = "done" =>
         /\ last = VInt(3)
         /\ env["m"] = VArray(<<VArray(<<VInt(1), VInt(3)>>), VArray(<<VInt(3), VInt(4)>>)>>)

\* C13's case: `++m[0][1];` has been parsed as an index chain whose base is
\* `++m`, and the type checker has refused `++` on the array
PrefixIncrementAppliedToArray ==
  /\ source = PrefixIncrementSource
  /\ Parsed
  /\ program[2] = ExprStmt(Access(Access(Un("++", Id("m"), FALSE), Num(0)), Num(1)))
  /\ stage = "failed"
  /\ failure = Failure("TypeChecking", "Unary operator '{operator}' requires Integer operand but found {operand_ty:?}")

\* the FunctionExpression the closure source spells
ClosureNode(with_parameter) ==
  IF with_parameter
  THEN FnExpr(<<Param("x", TInt)>>, TInt, Body(<<Return(Id("x"))>>))
  ELSE FnExpr(<< >>, TInt, Body(<<Return(Num(1))>>))

\* C14: `<p: T> -> T { ... }` and `<> -> T { ... }` in expression position are
\* lexed and parsed to a FunctionExpression with the listed parameters, the
\* return type and the body; no Parsing diagnostic.
ClosureSyntaxAccepted ==
  \A with_parameter \in BOOLEAN :
    source = ClosureSource(with_parameter) =>
      /\ ~FrontEndFailed
      /\ Parsed => program = <<Let("f", TyNone, ClosureNode(with_parameter))>>

\* C14's case: the parser has refused the `<` that opens the closure
ClosureSyntaxRefused ==
  /\ source = ClosureSource(TRUE)
  /\ stage = "failed"
  /\ failure = Failure("Parsing", "Unexpected token in expression: {tok:?}")
  /\ CurrentTok(lexer.tokens, parser).tok_name = "Lt"
  /\ program = << >>

\* the messages of the type checker's ArrayLiteral arm for an element of another type
ElementMismatchMessages ==
  { "Array elements must be of the same type, found {t:?} and {elem_ty:?}",
    "Array literal element type mismatch: expected {:?}, found {:?}" }

\* C15: `let xs: [int] = [1, true];` fails in the type checker with an
\* element-type mismatch; the `[int]` annotation gives no Lexing or Parsing
\* diagnostic.
BracketAnnotationReachesTypeChecker ==
  source = MixedArraySource(BracketAnnotation) =>
    /\ ~FrontEndFailed
    /\ stage \in {"failed", "eval", "done"} =>
         /\ stage = "failed"
         /\ failure.phase = "TypeChecking"
         /\ failure.message \in ElementMismatchMessages

\* C15's case: the parser has refused the `[` of the annotation `[int]`
BracketAnnotationRefused ==
  /\ source = MixedArraySource(BracketAnnotation)
  /\ stage = "failed"
  /\ failure = Failure("Parsing", "Expected a type")
  /\ CurrentTok(lexer.tokens, parser).tok_name = "LSqu"
  /\ "check" \notin {started[k] : k \in DOMAIN started}

\* lexe has returned, with or without an error
LexingOver == stage # "lex"

\* the kinds of the lexer's tokens, in order
TokenNames == [k \in DOMAIN lexer.tokens |-> lexer.tokens[k].tok_name]

\* the token name of a keyword
KeywordToken(keyword) == (CHOOSE p \in {Patterns[k] : k \in DOMAIN Patterns} : p.text = Chars(keyword)).name

\* C16: a keyword with an identifier character right after it lexes as one
\* Identifier token (a keyword with a space after it as the keyword), and each
\* two-character operator as one token, not as its one-character prefix and
\* another token.
FirstMatchingPatternWins ==
  (LexingOver /\ source \in GluedSources \cup SpacedSources \cup TwoCharSources) =>
    /\ \A g \in GluedWords :
         source = GluedSource(g) =>
           /\ TokenNames = <<"Identifier", "Eof">>
           /\ lexer.tokens[1].lexeme = g[1]
    /\ \A keyword \in KeywordWords :
         source = SpacedSource(keyword) =>
           TokenNames = <<KeywordToken(keyword), "Identifier", "Semicolon", "Eof">>
    /\ \A op \in TwoCharOperators :
         source = TwoCharSource(op) =>
           /\ TokenNames = <<"Identifier", op[2], "Identifier", "Semicolon", "Eof">>
           /\ lexer.tokens[2].lexeme = op[1]

\* C16's case: `intx` has been lexed as the one identifier `intx`
GluedKeywordIsIdentifier ==
  /\ source = GluedSource(<<"intx", "int", "x">>)
  /\ LexingOver
  /\ Len(lexer.tokens) = 2
  /\ lexer.tokens[1] = Token("Identifier", "intx", NewSpan(1, 1, 1, 4))

\* the run started from a source text
FromSource == started[1] = "lex"

\* lexe returned Ok(())
LexingSucceeded == FromSource /\ Len(started) >= 2

\* the characters of the tokens before the Eof token, in the tokens' order
RECURSIVE TokenChars(_)
TokenChars(tokens) ==
  IF tokens = << >> \/ Head(tokens).tok_name = "Eof" THEN << >>
  ELSE Chars(Head(tokens).lexeme) \o TokenChars(Tail(tokens))

\* the source without its whitespace
Visible(ch) == ch \notin Whitespace

\* C17: when lexing succeeds the token list is the source's tokens in source
\* order and then exactly one Eof token, the last element; no token is of kind
\* Unknown; when lexing fails the result is a Lexing diagnostic and the list
\* holds no Eof.
TokenListEndsWithOneEof ==
  FromSource =>
    /\ \A k \in DOMAIN lexer.tokens :
         /\ lexer.tokens[k].tok_name # "Unknown"
         /\ lexer.tokens[k].tok_name = "Eof" => k = Len(lexer.tokens)
    /\ LexingSucceeded =>
         /\ lexer.tokens # << >>
         /\ lexer.tokens[Len(lexer.tokens)].tok_name = "Eof"
         /\ TokenChars(lexer.tokens) = SelectSeq(source, Visible)
    /\ (LexingOver /\ ~LexingSucceeded) =>
         /\ stage = "failed"
         /\ failure = Failure("Lexing", "Unknown token: {lexeme}")
         /\ \A k \in DOMAIN lexer.tokens : lexer.tokens[k].tok_name # "Eof"
    /\ (source = LetSource /\ LexingOver) =>
         TokenNames = <<"Let", "Identifier", "Assign", "Number", "Semicolon", "Eof">>

\* C17's case: `let x = 10;` has been lexed
LetSourceLexed ==
  /\ source = LetSource
  /\ LexingSucceeded
  /\ TokenNames = <<"Let", "Identifier", "Assign", "Number", "Semicolon", "Eof">>

\* lexing `x & y;` has failed on the lone `&`, after the token of `x`
LoneAmpersandRefused ==
  /\ source = Source(<<"x", " ", "&", " ", "y", ";">>)
  /\ stage = "failed"
  /\ failure.phase = "Lexing"
  /\ TokenNames = <<"Identifier">>

\* the number of characters of the source before the first character of token k
RECURSIVE StartOffset(_)
StartOffset(k) ==
  LET end == IF k = 1 THEN 0 ELSE StartOffset(k - 1) + Len(Chars(lexer.tokens[k - 1].lexeme))
  IN end + RunLength(RemainingSource(source, end), Whitespace)

\* the line and the column of the character that `offset` characters come before
Newlines(offset) == {i \in 1..offset : source[i] = "\n"}
LineAt(offset) == 1 + Cardinality(Newlines(offset))
ColumnAt(offset) ==
  offset + 1 - (IF Newlines(offset) = {} THEN 0 ELSE CHOOSE i \in Newlines(offset) : \A j \in Newlines(offset) : j <= i)

\* C18: every token's span starts at the true position of its first character:
\* start_line is 1 plus the number of newlines before it, start_column its
\* 1-based column within its line.
TokenSpansAreSourcePositions ==
  FromSource =>
    \A k \in DOMAIN lexer.tokens :
      lexer.tokens[k].tok_name # "Eof" =>
        /\ lexer.tokens[k].span.start_line = LineAt(StartOffset(k))
        /\ lexer.tokens[k].span.start_column = ColumnAt(StartOffset(k))

\* C18's case: in `let m = [[1,2],[3,4]];\n++m[0][1];` the `++` that opens
\* line 2 has been given line 1, column 20: the three spaces and the newline
\* before it moved neither counter
SecondLineTokenOnLineOne ==
  /\ source = PrefixIncrementSource
  /\ LexingSucceeded
  /\ lexer.tokens[18].lexeme = "++"
  /\ LineAt(StartOffset(18)) = 2
  /\ ColumnAt(StartOffset(18)) = 1
  /\ lexer.tokens[18].span = NewSpan(1, 20, 1, 21)

\* the phase of the diagnostics of a stage
PhaseOf(stage_name) ==
  CASE stage_name = "lex" -> "Lexing"
    [] stage_name = "parse" -> "Parsing"
    [] stage_name = "check" -> "TypeChecking"
    [] stage_name = "eval" -> "Runtime"

\* the interpreter has done nothing
InterpreterUntouched ==
  env = EmptyMap /\ heap = << >> /\ printed = << >> /\ calls = << >> /\ last = VUnit /\ outcome = "None"

\* In every state of a run of main: the stages started so far are a prefix of
\* lex, parse, check, eval; a diagnostic comes from the last stage started and
\* leaves the run failed; at most one diagnostic has been reported, with exit
\* status 1; after a Lexing, Parsing or TypeChecking diagnostic the interpreter
\* has done nothing.
PipelineState ==
  /\ FromSource => started = SubSeq(StageOrder, 1, Len(started))
  /\ failure # NoFailure =>
       /\ stage = "failed"
       /\ failure.phase = PhaseOf(started[Len(started)])
  /\ failure.phase \in {"Lexing", "Parsing", "TypeChecking"} => InterpreterUntouched
  /\ Len(reported) <= 1
  /\ exit_status \in {<< >>, <<1>>}
  /\ (exit_status = <<1>>) = (reported # << >>)
  /\ reported # << >> => (failure # NoFailure /\ reported = <<failure>>)

\* In every step of a run of main: a stage starts only when the stages before it
\* returned success, and it is the next stage of the order; once a stage has
\* returned a diagnostic the only step is the report with exit status 1; after
\* the exit there is no step.
PipelineStep ==
  /\ started' # started =>
       /\ failure = NoFailure /\ failure' = NoFailure
       /\ Len(started') = Len(started) + 1
       /\ \A k \in DOMAIN started : started'[k] = started[k]
  /\ (failure # NoFailure /\ entry = "main") =>
       /\ exit_status = << >>
       /\ exit_status' = <<1>>
       /\ reported' = <<failure>>
       /\ UNCHANGED <<front, program, stage, started, failure, back>>

\* C19: the pipeline is fail-fast and strictly ordered.
PipelineIsFailFast == [](PipelineState) /\ [][PipelineStep]_vars

\* C19's case: the type checker's diagnostic for `let xs: array(int) = [1, true];`
\* has been reported and the run has ended with status 1, the interpreter not started
TypeCheckDiagnosticEndsRun ==
  /\ source = MixedArraySource(ArrayAnnotation)
  /\ started = <<"lex", "parse", "check">>
  /\ reported = <<Failure("TypeChecking", "Array elements must be of the same type, found {t:?} and {elem_ty:?}")>>
  /\ exit_status = <<1>>
  /\ InterpreterUntouched

\* the statement the type checker is about to check is `let x = f(...)` with no
\* annotation: the call is its expression
CallIsNext ==
  /\ stage = "check" /\ pc <= Len(program)
  /\ program[pc].kind = "LetDeclaration"
  /\ program[pc].var_type = TyNone
  /\ program[pc].expr.kind = "FunctionCall"
  /\ program[pc].expr.callee.kind = "Identifier"
  /\ \A i \in DOMAIN program[pc].expr.arguments :
       program[pc].expr.arguments[i].kind \in {"NumberLiteral", "BoolLiteral", "Identifier"}

\* the callee's type, TyNone for an undeclared callee
CalleeType == Get(checker, program[pc].expr.callee.name)

\* the type of the i-th argument on its own, TyNone for an undeclared identifier
ArgumentType(i) ==
  CASE program[pc].expr.arguments[i].kind = "NumberLiteral" -> TInt
    [] program[pc].expr.arguments[i].kind = "BoolLiteral" -> TBool
    [] program[pc].expr.arguments[i].kind = "Identifier" -> Get(checker, program[pc].expr.arguments[i].name)

CountsAgree == Len(program[pc].expr.arguments) = Len(CalleeType.param_types)

\* the arguments whose type is not the parameter's, an undeclared one among them
WrongArguments == { i \in DOMAIN program[pc].expr.arguments : ArgumentType(i) # CalleeType.param_types[i] }

FirstWrongArgument == CHOOSE i \in WrongArguments : \A j \in WrongArguments : i <= j

\* the diagnostic the step has recorded
Diagnosed(message) == stage' = "failed" /\ failure' = Failure("TypeChecking", message)

\* the step that checks a call of a declared callee
CallRule ==
  /\ (stage' = "check") =
       (CalleeType.t = "Function" /\ CountsAgree /\ WrongArguments = {})
  /\ stage' = "check" => Get(checker', program[pc].identifier) = CalleeType.return_type
  /\ CalleeType.t # "Function" => Diagnosed("Attempted to call non-function type {other:?}")
  /\ (CalleeType.t = "Function" /\ ~CountsAgree) =>
       Diagnosed("Function argument count mismatch: expected {}, found {}")
  /\ (CalleeType.t = "Function" /\ CountsAgree /\ WrongArguments # {}
        /\ ArgumentType(FirstWrongArgument) # TyNone) =>
       Diagnosed("Function argument type mismatch: expected {param_ty:?}, found {:?}")
  /\ stage' = "failed" => failure'.phase = "TypeChecking"

\* C20: a call type-checks exactly when the callee's type is Function, the
\* argument count equals the parameter count and every argument's type equals
\* its parameter's type, and then the call has the callee's return type;
\* otherwise the step records a TypeChecking diagnostic: "call non-function",
\* "argument count mismatch" (whatever the arguments are), or "argument type
\* mismatch" for the first argument of another type.
FunctionCallIsChecked == [][(CallIsNext /\ CalleeType # TyNone) => CallRule]_vars

\* C20's case: `f(z)` with f of two parameters and z undeclared has been refused
\* for its argument count
CountMismatchBeforeArguments ==
  /\ source = CallSource(FunctionOfTwo, <<"z">>)
  /\ failure = Failure("TypeChecking", "Function argument count mismatch: expected {}, found {}")

\* span `outer` covers span `inner`: it starts no later and ends no earlier
Covers(outer, inner) ==
  /\ NotAfter(outer.start_line, outer.start_column, inner.start_line, inner.start_column)
  /\ NotAfter(inner.end_line, inner.end_column, outer.end_line, outer.end_column)

\* the earlier of two starts, the later of two ends, as <<line, column>>
EarlierStart(a, b) ==
  IF NotAfter(a.start_line, a.start_column, b.start_line, b.start_column)
  THEN <<a.start_line, a.start_column>> ELSE <<b.start_line, b.start_column>>
LaterEnd(a, b) ==
  IF NotAfter(a.end_line, a.end_column, b.end_line, b.end_column)
  THEN <<b.end_line, b.end_column>> ELSE <<a.end_line, a.end_column>>

\* C21: merge(a, b) starts at the lexicographic minimum of the two starts and
\* ends at the lexicographic maximum of the two ends; it covers a and b and is
\* covered by every span that covers both; merge is commutative, idempotent
\* and associative.
MergeIsSmallestCover ==
  /\ (stage = "merge" /\ merging.merged # << >>) =>
       /\ <<merging.merged[1].start_line, merging.merged[1].start_column>> = EarlierStart(merging.self, merging.other)
       /\ <<merging.merged[1].end_line, merging.merged[1].end_column>> = LaterEnd(merging.self, merging.other)
       /\ Covers(merging.merged[1], merging.self)
       /\ Covers(merging.merged[1], merging.other)
       /\ \A sp \in Spans :
            (Covers(sp, merging.self) /\ Covers(sp, merging.other)) => Covers(sp, merging.merged[1])
       /\ merging.merged[1] = Merge(merging.other, merging.self)
       /\ merging.self = merging.other => merging.merged[1] = merging.self
  /\ (stage = "merge" /\ merging.chained # << >>) =>
       merging.chained[1] = Merge(merging.self, Merge(merging.other, merging.third))

\* C21's case: spans on two lines, the later line's span starting at a smaller
\* column, have been merged with each other and with a third
SpansOfTwoLinesMerged ==
  /\ stage = "merge"
  /\ merging.self = NewSpan(1, 2, 1, 2)
  /\ merging.other = NewSpan(2, 1, 2, 1)
  /\ merging.third = NewSpan(1, 1, 1, 2)
  /\ merging.merged = <<NewSpan(1, 2, 2, 1)>>
  /\ merging.chained = <<NewSpan(1, 1, 2, 1)>>

\* both runs of the source are over
BothRunsOver == first # << >> /\ RunOver

\* C22: two runs of the pipeline on the same source, each with freshly
\* constructed Lexer, Parser, TypeChecker and Interpreter, produce the same
\* token list, the same AST, and the same final value or the same diagnostic.
RunsAgree ==
  BothRunsOver =>
    /\ first[1].tokens = lexer.tokens
    /\ first[1].nodes = program
    /\ first[1].outcome = outcome
    /\ first[1].value = last
    /\ first[1].failure = failure

\* What happens for C22: the two runs of the function comparison end with
\* Runtime diagnostics whose texts list the captured `a` and `b` in different
\* orders; tokens and AST are the same.
RunsDisagreeOnMessage ==
  /\ BothRunsOver
  /\ source = FunctionComparisonSource
  /\ first[1].tokens = lexer.tokens
  /\ first[1].nodes = program
  /\ first[1].failure = FailureShowing("Runtime", "Unsupported binary operation: {l:?} {op} {r:?}", <<<<"a", "b">>, <<"a", "b">>>>)
  /\ failure = FailureShowing("Runtime", "Unsupported binary operation: {l:?} {op} {r:?}", <<<<"b", "a">>, <<"b", "a">>>>)

\* C23: the span of every node parse_program has built covers the span of
\* every token consumed while parsing it, the parentheses of `( e )` included.
NodeSpanCoversItsTokens ==
  \A n \in DOMAIN node_spans :
    \A k \in (node_spans[n].from + 1)..node_spans[n].to :
      Covers(node_spans[n].span, lexer.tokens[k].span)

\* What happens for C23: the statement `(a);` has been parsed, its tokens are
\* the four at columns 1 to 4, and its node's span starts at the `a` in column 2.
ParenthesisOutsideSpan ==
  /\ source = Source(<<"(", "a", ")", ";">>)
  /\ program = <<ExprStmt(Id("a"))>>
  /\ node_spans = <<ConsumedBy(NewSpan(1, 2, 1, 4), 0, 4)>>
  /\ lexer.tokens[1].tok_name = "LPar"
  /\ lexer.tokens[1].span = NewSpan(1, 1, 1, 1)

\* the bodies of the counting loop that run to their end, and the value the
\* last of them gives (the value of `n++`), Unit when there is none
FinishedBodies(limit, leave_at) == IF leave_at < limit THEN leave_at ELSE limit
LastBodyValue(limit, leave_at) ==
  IF FinishedBodies(limit, leave_at) = 0 THEN VUnit ELSE VInt(FinishedBodies(limit, leave_at) - 1)

\* the interpreter has evaluated the loop, the third statement of the program
AfterLoop == stage \in {"eval", "done", "failed"} /\ started[Len(started)] = "eval" /\ (pc >= 4 \/ stage # "eval")

\* C24, a loop left by the guard or by Break: the guard is evaluated once
\* before every body; the loop's value is the value of the last body that ran
\* to its end (Unit if none); Break does not leave the While, the statement
\* after the loop runs.
WhileEndsByGuardOrBreak ==
  \A limit \in 0..MaxLimit, leave_at \in 0..MaxLimit :
    (program = WhileProgram(CountingGuard(limit), leave_at, Break) /\ AfterLoop) =>
      /\ stage # "failed" /\ outcome # "Break"
      /\ env["n"] = VInt(FinishedBodies(limit, leave_at))
      /\ env["g"] = VInt(FinishedBodies(limit, leave_at) + 1)
      /\ pc = 4 => last = LastBodyValue(limit, leave_at)
      /\ stage = "done" => (outcome = "Value" /\ env["after"] = VInt(1))

\* C24, a Return in the body: the loop ends at once, the Return goes on to
\* eval_program and the statement after the loop does not run; with no Return
\* reached the loop ends by its guard.
WhileHandsReturnOn ==
  \A limit \in 0..MaxLimit, leave_at \in 0..MaxLimit :
    (program = WhileProgram(CountingGuard(limit), leave_at, ReturnSeven) /\ AfterLoop) =>
      IF leave_at < limit
      THEN /\ stage = "done" /\ outcome = "Return" /\ last = VInt(7) /\ pc = 3
           /\ env["n"] = VInt(leave_at) /\ env["g"] = VInt(leave_at + 1)
           /\ ~Has(env, "after")
      ELSE /\ stage # "failed" /\ outcome # "Return"
           /\ env["n"] = VInt(limit) /\ env["g"] = VInt(limit + 1)

\* C24, a guard that is not a Bool
WhileRefusesOtherGuards ==
  (program = WhileProgram(Num(1), 0, Break) /\ AfterLoop) =>
    /\ stage = "failed" /\ pc = 3
    /\ failure = Failure("Runtime", "While guard must evaluate to a boolean")
    /\ env["n"] = VInt(0)

\* C24: While-loop control flow.
WhileControlFlow ==
  program \in WhilePrograms => (WhileEndsByGuardOrBreak /\ WhileHandsReturnOn /\ WhileRefusesOtherGuards)

\* C24's case: the loop of limit 3 left by Break in its third body has given
\* the value of its second body, and the statement after it has run
LoopLeftByBreak ==
  /\ program = WhileProgram(CountingGuard(3), 2, Break)
  /\ stage = "done" /\ outcome = "Value"
  /\ env["n"] = VInt(2) /\ env["g"] = VInt(3) /\ env["after"] = VInt(1)

\* check_program has returned for a run of main
CheckOver == entry = "main" /\ stage # "check" /\ started[Len(started)] \in {"check", "eval"}

UndeclaredAt(statement) ==
  /\ stage = "failed" /\ pc = statement
  /\ failure = Failure("TypeChecking", "Use of undeclared identifier '{name}'")

\* C25: a name declared by `let` inside an if, else or while body resolves
\* after the block, at top level and in the same function; parameters and names
\* declared in a function body do not resolve after the declaration ("Use of
\* undeclared identifier"), the function's name does; a function body resolves
\* the names declared before it in every enclosing scope and its own name.
ScopingIsPerFunctionBody ==
  (program \in ScopePrograms /\ CheckOver) =>
    /\ \A block \in BlockKinds :
         /\ program = TopLevelBlockProgram(block) => (tc_error = "" /\ Get(checker, "v") = TInt)
         /\ program = FunctionBlockProgram(block) => (UndeclaredAt(2) /\ Get(checker, "v") = TyNone)
    /\ \A name \in {"p", "q"} : program = LeakProgram(name) => UndeclaredAt(2)
    /\ program = LeakProgram("f") => tc_error = ""
    /\ program = EnclosingProgram =>
         (tc_error = "" /\ Get(checker, "o") = TInt /\ Get(checker, "h") = TyNone /\ Get(checker, "f").t = "Function")
    /\ Len(checker.scopes) = 1

\* C25's case: after `fn f(p: int) -> int { let q = 1; return p; }` the use of
\* `p` has been refused, and f is declared
ParameterGoneAfterFunction ==
  /\ program = LeakProgram("p")
  /\ UndeclaredAt(2)
  /\ Get(checker, "f") = TFunction(<<TInt>>, TInt)
  /\ Get(checker, "p") = TyNone

\* C26: a Body is accepted, and guarantees a return, when its statements up to
\* the first one that guarantees a return are well typed, whatever follows that
\* statement: a use of an undeclared name, an ill-typed expression, a return of
\* another type; a `let` that follows it declares nothing.  The same statements
\* put before the returning one are checked.
DeadCodeIsNotChecked ==
  (program \in DeadCodePrograms /\ CheckOver) =>
    \A returning \in Returning :
      /\ \A dead \in Unchecked :
           /\ program = TwoStatementFunction(returning, dead) =>
                (tc_error = "" /\ Get(checker, "f") = TFunction(<< >>, TInt))
           /\ (program = TwoStatementFunction(dead, returning) /\ dead.kind # "LetDeclaration") =>
                (stage = "failed" /\ pc = 1 /\ failure.phase = "TypeChecking")
      /\ program = DeadLetProgram(returning) => (UndeclaredAt(2) /\ Get(checker, "d") = TyNone)

\* C26's case: `fn f() -> int { return 1; z; }` with z undeclared has been accepted
UndeclaredNameAfterReturnAccepted ==
  /\ program = TwoStatementFunction(ReturnOne, ExprStmt(Id("z")))
  /\ CheckOver
  /\ tc_error = ""
  /\ Get(checker, "f") = TFunction(<< >>, TInt)

\* the interpreter is past the call `f();`, the fourth statement
CallOver == started[Len(started)] = "eval" /\ (stage \in {"done", "failed"} \/ pc > 4)

\* C27: a function reads the frame as it was when the function was defined:
\* after `x = 5`, `x++`, `let x = 9` or `let w = 3` in the defining frame a call
\* still reads x = 1; a name bound in the defining frame after the definition
\* is "Undefined variable" in the body.
FunctionReadsItsSnapshot ==
  (program \in SnapshotPrograms /\ CallOver) =>
    \A as_let \in BOOLEAN :
      /\ \A change \in FrameChanges :
           program = SnapshotProgram(as_let, change) => (stage # "failed" /\ last = VInt(1))
      /\ \A binding \in LateBindings :
           program = LateNameProgram(as_let, binding) =>
             (stage = "failed" /\ pc = 4 /\ failure = Failure("Runtime", "Undefined variable: {name}"))

\* What happens for C27: after `let y = f;` the body of f reads y, and the call returns 1.
AliasVisibleInBody ==
  /\ program = LateNameProgram(FALSE, Let("y", TyNone, Id("f")))
  /\ entry = "main"
  /\ stage = "done"
  /\ last = VInt(1)
  /\ env["y"] = env["f"]
  /\ Has(heap[env["f"].cell], "y")

\* the same without the programs that bind y to f
FunctionReadsItsSnapshotButAliases ==
  (\A as_let \in BOOLEAN : program # LateNameProgram(as_let, Let("y", TyNone, Id("f")))) => FunctionReadsItsSnapshot

\* what each production of the parser returns when it starts at `pos`: the
\* body of every loop iteration of the parser is one of them (a statement in
\* parse_program and parse_body, an expression in the lists) or starts with a
\* consume_tok at a token that is not Eof (postfix chain, binary operators)
Productions(tokens, pos) ==
  { ParseStatement(tokens, pos), ParseBody(tokens, pos), ParseType(tokens, pos),
    ParseBinaryExpression(tokens, pos, 0), ParseUnaryExpression(tokens, pos),
    ParsePostfixExpression(tokens, pos), ParsePrimary(tokens, pos) }

\* the index of the last token
LastIndex(tokens) == Len(tokens) - 1

\* C28: Whatever token list ending in its only Eof the parser is given, and
\* wherever in it a production starts, the production returns with the cursor
\* no earlier than it started and no later than the last token, and one that
\* returns Ok has consumed a token; consume_tok moves on from every token but
\* Eof; so parse_program's cursor stays within the list and it has parsed no
\* more statements than it has consumed tokens, which bounds its loop.
ParserCursorIsSafe ==
  /\ parser \in 0..LastIndex(lexer.tokens)
  /\ Len(program) <= parser
  /\ stage \in {"parse", "failed", "check"}
  /\ stage = "check" => parser = LastIndex(lexer.tokens) /\ failure = NoFailure
  /\ stage = "failed" => failure.phase = "Parsing"
  /\ \A pos \in 0..LastIndex(lexer.tokens) :
       /\ CurrentTok(lexer.tokens, pos).tok_name # "Eof" => ConsumeTok(lexer.tokens, pos) = pos + 1
       /\ \A r \in Productions(lexer.tokens, pos) :
            /\ r.pos \in pos..LastIndex(lexer.tokens)
            /\ r.ok => r.pos > pos

\* a block has been parsed and the next one reaches Eof before it is closed:
\* the parser has stopped with a diagnostic, its cursor on the last token
EofInsideBody ==
  /\ stage = "failed"
  /\ Len(program) = 1
  /\ parser = LastIndex(lexer.tokens)
  /\ [k \in DOMAIN lexer.tokens |-> lexer.tokens[k].tok_name] = <<"LBra", "RBra", "LBra", "Eof">>

\* the value of `[1, 2]`, and of `[0]`
OriginalValue == VArray(<<VInt(1), VInt(2)>>)
ZeroValue == VArray(<<VInt(0)>>)
HoldingNames == {"a", "b", "p"}

\* the names of `frame` bound to arrays
ArrayNames(frame) == { name \in DOMAIN frame : frame[name].tag = "Array" }

\* C29: Arrays are values.  After `let a = [1, 2];` the array reaches a second
\* holder by `let b = a;`, by `b = a`, as the argument of a call or in the
\* environment a function captures; a slot assignment, `++` or `--` is then
\* applied to the array of one name, at top level or in the frame of a call.  In
\* every frame the array of every other name, and that of the same name in
\* another frame, is what it was bound to; a function that captured `a` before
\* the change still reads 1 + 2.
ArraysAreCopied ==
  \A way \in CopyWays, name \in HoldingNames :
    \A change \in SlotChanges(name) :
      program = CopyProgram(way, change) =>
        /\ \A other \in ArrayNames(env) :
             other # name \/ way \in {"argument", "capture"} => env[other] \in {OriginalValue, ZeroValue}
        /\ \A k \in DOMAIN calls :
             /\ \A other \in ArrayNames(calls[k].frame) : other # name => calls[k].frame[other] = OriginalValue
             /\ \A other \in ArrayNames(calls[k].pre) : calls[k].post[other] = calls[k].pre[other]
             /\ way = "captured" /\ calls[k].result = "Value" => calls[k].result_v = VInt(3)

\* `fn f(p: [int]) -> int { p[0] = 9; return p[0]; } f(a);` has run: in the
\* frame of the call p is [9, 2], the call's value is 9, and a is still [1, 2]
ArgumentChangedInFrameOnly ==
  /\ program = CopyProgram("argument", ExprStmt(Bin(Access(Id("p"), Num(0)), "=", Num(9))))
  /\ stage = "done"
  /\ Len(calls) = 1
  /\ calls[1].frame["p"] = VArray(<<VInt(9), VInt(2)>>)
  /\ last = VInt(9)
  /\ env["a"] = OriginalValue

\* the assignment, the fourth statement of its program, has been evaluated
AssignmentEvaluated ==
  /\ started[Len(started)] = "eval"
  /\ pc = 5 \/ (stage = "failed" /\ pc = 4)

ThreeValues == <<VInt(1), VInt(2), VInt(3)>>

\* what `rhs` evaluates to when k and r hold these values, and r after it
OrderValueOf(rhs, k, r) == CASE rhs = Num(7) -> 7 [] rhs = Id("k") -> k [] OTHER -> r
OrderTraceOf(rhs, r) == IF rhs = Un("++", Id("r"), TRUE) THEN r + 1 ELSE r

\* C30: In `target = rhs` the target is read first, as any expression: with an
\* undefined `u` or an out-of-range `a[5]` the run fails while r, which `rhs`
\* would change, is untouched.  Then `rhs` is evaluated.  Then, for `a[i]`, `i`
\* is evaluated again: after `a[k++] = rhs` k is two more than it was, `rhs` saw
\* k one more than it was, and the slot written is the one after the slot read,
\* or, when that one is past the end, the run fails with the write's message.
AssignmentOrder ==
  \A k0 \in OrderStarts, target \in OrderTargets, rhs \in OrderValues :
    program = OrderProgram(k0, target, rhs) /\ AssignmentEvaluated =>
      CASE target = Id("u") ->
             stage = "failed" /\ rt_error = "Undefined variable: {name}" /\ env["r"] = VInt(0) /\ ~Has(env, "u")
        [] target = Access(Id("a"), Num(5)) ->
             stage = "failed" /\ rt_error = "Index out of bounds" /\ env["r"] = VInt(0)
        [] target = Access(Id("a"), Un("++", Id("k"), TRUE)) ->
             /\ env["k"] = VInt(k0 + 2)
             /\ env["r"] = VInt(OrderTraceOf(rhs, 0))
             /\ IF k0 + 1 < Len(ThreeValues)
                THEN /\ stage # "failed"
                     /\ env["a"] = VArray([ThreeValues EXCEPT ![k0 + 2] = VInt(OrderValueOf(rhs, k0 + 1, 0))])
                ELSE /\ stage = "failed"
                     /\ rt_error = "Index {idx} out of bounds for array '{array_name}' of length {len}"
                     /\ env["a"] = VArray(ThreeValues)
        [] target = Access(Id("a"), Num(0)) ->
             /\ stage # "failed"
             /\ env["a"] = VArray([ThreeValues EXCEPT ![1] = VInt(OrderValueOf(rhs, k0, 0))])
             /\ env["r"] = VInt(OrderTraceOf(rhs, 0))
        [] target = Id("r") ->
             stage # "failed" /\ env["r"] = VInt(OrderValueOf(rhs, k0, 0)) /\ env["k"] = VInt(k0)

\* `let k = 0; a[k++] = 7;` has run: a is [1, 7, 3] and k is 2
IndexCountedTwice ==
  /\ program = OrderProgram(0, Access(Id("a"), Un("++", Id("k"), TRUE)), Num(7))
  /\ AssignmentEvaluated
  /\ env["k"] = VInt(2)
  /\ env["a"] = VArray(<<VInt(1), VInt(7), VInt(3)>>)

====
